---- MODULE Spec2Model ----
(***************************************************************************)
(* A model of the rtags daemon orchestration layer:                        *)
(*   - IndexerSyncer (staging buffer, producers, writer thread, KV stores) *)
(*   - Server (pending lookups, job ids, project registry)                 *)
(* Each part has its own specification over the shared variable list; a    *)
(* specification leaves the variables of the other parts unchanged.        *)
(***************************************************************************)
EXTENDS Integers, Sequences, FiniteSets, TLC

(***************************************************************************)
(* Bounds                                                                  *)
(***************************************************************************)
\* number of producer calls (add*, setPchDependencies) in one behaviour
MaxCalls == 2

(***************************************************************************)
(* Partial maps (QHash / Map): functions whose DOMAIN is the key set        *)
(***************************************************************************)
EmptyMap == [x \in {} |-> 0]

IsEmptyMap(m) == DOMAIN m = {}

MapGet(m, k, default) == IF k \in DOMAIN m THEN m[k] ELSE default

MapPut(m, k, v) == [x \in DOMAIN m \cup {k} |-> IF x = k THEN v ELSE m[x]]

\* an arbitrary enumeration of a finite set, in every possible order
Orders(S) == { s \in [1..Cardinality(S) -> S] : \A i, j \in 1..Cardinality(S) : s[i] = s[j] => i = j }

(***************************************************************************)
(* IndexerSyncer: value domains                                            *)
(***************************************************************************)
Names == {"a", "b"}
Locs == {1, 2, 3}
NullLocation == 0
Files == {"x.c", "y.h"}
NormalReference == "NormalReference"
MemberFunction == "MemberFunction"

\* Rdm::CursorInfo, default constructed
NullCursorInfo == [target |-> NullLocation, references |-> {}, kind |-> "Invalid"]

CursorInfo(t, r, k) == [target |-> t, references |-> r, kind |-> k]

\* CursorInfo::unite: unions the reference sets, fills a null target, keeps
\* the kind unless the incoming one is a definition over a declaration (or
\* the current one is not set). Returns the united value.
UniteValue(cur, added) ==
    [target |-> IF cur.target = NullLocation THEN added.target ELSE cur.target,
     references |-> cur.references \cup added.references,
     kind |-> IF cur.kind = added.kind THEN cur.kind
              ELSE IF cur.kind = "Invalid" THEN added.kind
              ELSE IF cur.kind = "Decl" /\ added.kind = "Def" THEN "Def"
              ELSE cur.kind]

\* the bool CursorInfo::unite returns: whether the value was modified
UniteChanged(cur, added) == UniteValue(cur, added) # cur

\* addTo (IndexerSyncer.cpp): container += value; true iff the size changed
AddToValue(container, value) == container \cup value

AddToChanged(container, value) == Cardinality(container \cup value) # Cardinality(container)

(***************************************************************************)
(* The values the producers are called with                                *)
(***************************************************************************)
SymbolNameInputs ==
    { "a" :> {1}, "a" :> {2}, "b" :> {1}, "a" :> {},
      ("a" :> {1, 2}) @@ ("b" :> {3}) }

SymbolInputs ==
    { 1 :> CursorInfo(NullLocation, {}, "Def"),
      1 :> CursorInfo(NullLocation, {3}, "Decl"),
      2 :> CursorInfo(NullLocation, {}, "Decl"),
      (1 :> CursorInfo(NullLocation, {}, "Def")) @@ (2 :> CursorInfo(1, {}, "Decl")) }

ReferenceInputs ==
    { 2 :> <<1, NormalReference>>,
      2 :> <<1, MemberFunction>>,
      3 :> <<1, MemberFunction>>,
      (2 :> <<1, NormalReference>>) @@ (3 :> <<1, NormalReference>>) }

DependencyInputs ==
    { "x.c" :> {"y.h"}, "x.c" :> {"x.c"}, "y.h" :> {} }

PchDependencyInputs == { "x.c" :> {"y.h"} }

ArgLists == { <<"-c">>, <<"-g">> }
TimeStamps == { 1 }

VARIABLES
    \* IndexerSyncer members
    mSymbolNames, mSymbols, mReferences, mDependencies, mPchDependencies,
    mInformations, mStopped,
    \* IndexerSyncer::run: position and locals
    pc, symbolNames, symbols, references, dependencies, pchDependencies, informations,
    \* the KV stores (LevelDB): SymbolName, Symbol, Dependency (+ its "pch" key), FileInformation
    dbSymbolName, dbSymbol, dbDependency, dbPch, dbFileInformation,
    \* history: producer calls since the last swap, calls swapped by the last swap,
    \* stores as they were at the last swap, stores written since the last swap,
    \* number of producer calls made
    log, cycleLog, dbPre, wrote, calls

syncVars == << mSymbolNames, mSymbols, mReferences, mDependencies, mPchDependencies,
               mInformations, mStopped,
               pc, symbolNames, symbols, references, dependencies, pchDependencies, informations,
               dbSymbolName, dbSymbol, dbDependency, dbPch, dbFileInformation,
               log, cycleLog, dbPre, wrote, calls >>

stagingVars == << mSymbolNames, mSymbols, mReferences, mDependencies, mPchDependencies, mInformations >>
localVars == << symbolNames, symbols, references, dependencies, pchDependencies, informations >>
dbVars == << dbSymbolName, dbSymbol, dbDependency, dbPch, dbFileInformation >>

Stores == [SymbolName |-> dbSymbolName, Symbol |-> dbSymbol, Dependency |-> dbDependency,
           Pch |-> dbPch, FileInformation |-> dbFileInformation]

SyncInit ==
    /\ mSymbolNames = EmptyMap /\ mSymbols = EmptyMap /\ mReferences = EmptyMap
    /\ mDependencies = EmptyMap /\ mPchDependencies = EmptyMap /\ mInformations = EmptyMap
    /\ mStopped = FALSE
    /\ pc = "wait"
    /\ symbolNames = EmptyMap /\ symbols = EmptyMap /\ references = EmptyMap
    /\ dependencies = EmptyMap /\ pchDependencies = EmptyMap /\ informations = EmptyMap
    /\ dbSymbolName = EmptyMap /\ dbSymbol = EmptyMap /\ dbDependency = EmptyMap
    /\ dbPch = EmptyMap /\ dbFileInformation = EmptyMap
    /\ log = {} /\ cycleLog = {}
    /\ dbPre = [SymbolName |-> EmptyMap, Symbol |-> EmptyMap, Dependency |-> EmptyMap,
                Pch |-> EmptyMap, FileInformation |-> EmptyMap]
    /\ wrote = {}
    /\ calls = 0

(***************************************************************************)
(* Producers (called by indexer jobs, under mMutex)                        *)
(***************************************************************************)
\* QHash<K, QSet<V>>: mX[key].unite(value) for every key of the argument
UniteSets(m, arg) ==
    [k \in DOMAIN m \cup DOMAIN arg |->
        IF k \in DOMAIN arg THEN MapGet(m, k, {}) \cup arg[k] ELSE m[k]]

\* SymbolHash: mSymbols[key].unite(value) for every key of the argument
UniteSymbols(m, arg) ==
    [k \in DOMAIN m \cup DOMAIN arg |->
        IF k \in DOMAIN arg THEN UniteValue(MapGet(m, k, NullCursorInfo), arg[k]) ELSE m[k]]

\* mX[key] = value for every key of the argument
Overwrite(m, arg) ==
    [k \in DOMAIN m \cup DOMAIN arg |-> IF k \in DOMAIN arg THEN arg[k] ELSE m[k]]

Called(op, arg) ==
    /\ calls < MaxCalls
    /\ calls' = calls + 1
    /\ log' = log \cup {<<op, arg>>}

addSymbolNames(locations) ==
    /\ Called("addSymbolNames", locations)
    /\ mSymbolNames' = IF IsEmptyMap(mSymbolNames) THEN locations
                       ELSE UniteSets(mSymbolNames, locations)
    /\ UNCHANGED << mSymbols, mReferences, mDependencies, mPchDependencies, mInformations,
                    mStopped, pc, localVars, dbVars, cycleLog, dbPre, wrote >>

addSymbols(syms) ==
    /\ Called("addSymbols", syms)
    /\ mSymbols' = IF IsEmptyMap(mSymbols) THEN syms ELSE UniteSymbols(mSymbols, syms)
    /\ UNCHANGED << mSymbolNames, mReferences, mDependencies, mPchDependencies, mInformations,
                    mStopped, pc, localVars, dbVars, cycleLog, dbPre, wrote >>

addReferences(refs) ==
    /\ Called("addReferences", refs)
    /\ mReferences' = IF IsEmptyMap(mReferences) THEN refs ELSE Overwrite(mReferences, refs)
    /\ UNCHANGED << mSymbolNames, mSymbols, mDependencies, mPchDependencies, mInformations,
                    mStopped, pc, localVars, dbVars, cycleLog, dbPre, wrote >>

addDependencies(deps) ==
    /\ Called("addDependencies", deps)
    /\ mDependencies' = IF IsEmptyMap(mDependencies) THEN deps
                        ELSE UniteSets(mDependencies, deps)
    /\ UNCHANGED << mSymbolNames, mSymbols, mReferences, mPchDependencies, mInformations,
                    mStopped, pc, localVars, dbVars, cycleLog, dbPre, wrote >>

setPchDependencies(deps) ==
    /\ Called("setPchDependencies", deps)
    /\ mPchDependencies' = IF IsEmptyMap(mPchDependencies) THEN deps
                           ELSE UniteSets(mPchDependencies, deps)
    /\ UNCHANGED << mSymbolNames, mSymbols, mReferences, mDependencies, mInformations,
                    mStopped, pc, localVars, dbVars, cycleLog, dbPre, wrote >>

addFileInformation(input, args, timeStamp) ==
    /\ Called("addFileInformation", input :> [lastTouched |-> timeStamp, compileArgs |-> args])
    /\ mInformations' = MapPut(mInformations, input,
                               [lastTouched |-> timeStamp, compileArgs |-> args])
    /\ UNCHANGED << mSymbolNames, mSymbols, mReferences, mDependencies, mPchDependencies,
                    mStopped, pc, localVars, dbVars, cycleLog, dbPre, wrote >>

\* mCond.wakeOne(): a writer blocked in mCond.wait returns from it; without
\* a waiter the call has no effect
WakeOne == pc' = IF pc = "blocked" THEN "wait" ELSE pc

stop ==
    /\ ~mStopped
    /\ mStopped' = TRUE
    /\ WakeOne
    /\ UNCHANGED << stagingVars, localVars, dbVars, log, cycleLog, dbPre, wrote, calls >>

\* IndexerSyncer::notify, called while the writer is blocked
notify ==
    /\ pc = "blocked"
    /\ WakeOne
    /\ UNCHANGED << stagingVars, mStopped, localVars, dbVars, log, cycleLog, dbPre, wrote,
                    calls >>

(***************************************************************************)
(* IndexerSyncer::run, the writer thread                                   *)
(***************************************************************************)
\* leveldb::WriteBatch applied by Write(): the puts in order, a later put of a key wins
RECURSIVE ApplyBatch(_, _)
ApplyBatch(db, batch) ==
    IF batch = << >> THEN db
    ELSE ApplyBatch(MapPut(db, Head(batch)[1], Head(batch)[2]), Tail(batch))

AnyStaged ==
    \/ ~IsEmptyMap(mSymbols) \/ ~IsEmptyMap(mSymbolNames) \/ ~IsEmptyMap(mDependencies)
    \/ ~IsEmptyMap(mInformations) \/ ~IsEmptyMap(mReferences) \/ ~IsEmptyMap(mPchDependencies)

\* lines 118-124: nothing is staged, the writer blocks in mCond.wait(&mMutex, 10000)
WriterWait ==
    /\ pc = "wait" /\ ~mStopped /\ ~AnyStaged
    /\ pc' = "blocked"
    /\ UNCHANGED << stagingVars, mStopped, localVars, dbVars, log, cycleLog, dbPre, wrote,
                    calls >>

\* line 124: the 10 s of mCond.wait have passed
WriterTimeout ==
    /\ pc = "blocked"
    /\ pc' = "wait"
    /\ UNCHANGED << stagingVars, mStopped, localVars, dbVars, log, cycleLog, dbPre, wrote,
                    calls >>

\* (mutant) the staging maps are copied, not swapped
WriterSwapCopies ==
    /\ pc = "wait" /\ ~mStopped /\ AnyStaged
    /\ symbolNames' = mSymbolNames /\ symbols' = mSymbols
    /\ dependencies' = mDependencies /\ pchDependencies' = mPchDependencies
    /\ informations' = mInformations /\ references' = mReferences
    /\ pc' = "names"
    /\ cycleLog' = log /\ log' = {}
    /\ dbPre' = Stores
    /\ wrote' = {}
    /\ UNCHANGED << stagingVars, mStopped, dbVars, calls >>

\* lines 114-135: leave the wait loop (woken or timed out) with work present, swap
WriterSwap ==
    /\ pc = "wait" /\ ~mStopped /\ AnyStaged
    /\ symbolNames' = mSymbolNames /\ mSymbolNames' = EmptyMap
    /\ symbols' = mSymbols /\ mSymbols' = EmptyMap
    /\ dependencies' = mDependencies /\ mDependencies' = EmptyMap
    /\ pchDependencies' = mPchDependencies /\ mPchDependencies' = EmptyMap
    /\ informations' = mInformations /\ mInformations' = EmptyMap
    /\ references' = mReferences /\ mReferences' = EmptyMap
    /\ pc' = "names"
    /\ cycleLog' = log /\ log' = {}
    /\ dbPre' = Stores
    /\ wrote' = {}
    /\ UNCHANGED << mStopped, dbVars, calls >>

\* lines 116-117, 125-126: mStopped seen under the lock
WriterStopped ==
    /\ pc = "wait" /\ mStopped
    /\ pc' = "exited"
    /\ UNCHANGED << stagingVars, mStopped, localVars, dbVars, log, cycleLog, dbPre, wrote, calls >>

\* a failed LevelDB::open makes run() return
WriterOpenFailed(at) ==
    /\ pc = at
    /\ pc' = "exited"
    /\ UNCHANGED << stagingVars, mStopped, localVars, dbVars, log, cycleLog, dbPre, wrote, calls >>

\* (mutant) the staged set is written without the value read from the store
SymbolNameBatchNoRead(db, staged) ==
    LET grown == { k \in DOMAIN staged : AddToChanged(MapGet(db, k, {}), staged[k]) }
    IN [k \in grown |-> staged[k]]

\* lines 143-155: the keys whose set grows, with the grown set
SymbolNameBatch(db, staged) ==
    LET grown == { k \in DOMAIN staged : AddToChanged(MapGet(db, k, {}), staged[k]) }
    IN [k \in grown |-> AddToValue(MapGet(db, k, {}), staged[k])]

\* lines 136-159
WriterSymbolNames ==
    /\ pc = "names"
    /\ IF IsEmptyMap(symbolNames) THEN UNCHANGED << dbSymbolName, wrote >>
       ELSE LET batch == SymbolNameBatch(dbSymbolName, symbolNames)
            IN IF ~IsEmptyMap(batch)
               THEN /\ dbSymbolName' = Overwrite(dbSymbolName, batch)
                    /\ wrote' = wrote \cup {"SymbolName"}
               ELSE UNCHANGED << dbSymbolName, wrote >>
    /\ pc' = "symbols"
    /\ UNCHANGED << stagingVars, mStopped, localVars, dbSymbol, dbDependency, dbPch,
                    dbFileInformation, log, cycleLog, dbPre, calls >>

\* (mutant) the back-link is made but the target of the referring cursor is not set
ReferenceStagedNoTarget(st, from, to, kind) ==
    LET ci0 == st.symbols[to]
        ci1 == [ci0 EXCEPT !.references = @ \cup {from}]
    IN IF kind = NormalReference \/ from = to
       THEN [st EXCEPT !.symbols = MapPut(st.symbols, to, ci1)]
       ELSE LET other0 == MapGet(st.symbols, from, NullCursorInfo)
                ci2 == [ci1 EXCEPT !.references = @ \cup other0.references]
                other1 == [other0 EXCEPT !.references = @ \cup ci2.references]
            IN [st EXCEPT !.symbols = MapPut(MapPut(st.symbols, to, ci2), from, other1)]

\* lines 167-185: the target of the reference is in the staged symbols map
ReferenceStaged(st, from, to, kind) ==
    LET ci0 == st.symbols[to]
        ci1 == [ci0 EXCEPT !.references = @ \cup {from}]
    IN IF kind = NormalReference
       THEN [st EXCEPT !.symbols = MapPut(st.symbols, to, ci1)]
       ELSE IF from = to
       THEN \* other aliases ci
            [st EXCEPT !.symbols = MapPut(st.symbols, to,
                [ci1 EXCEPT !.target = IF @ = NullLocation THEN to ELSE @])]
       ELSE LET other0 == MapGet(st.symbols, from, NullCursorInfo)
                ci2 == [ci1 EXCEPT !.references = @ \cup other0.references]
                other1 == [other0 EXCEPT !.references = @ \cup ci2.references,
                                         !.target = IF @ = NullLocation THEN to ELSE @]
            IN [st EXCEPT !.symbols = MapPut(MapPut(st.symbols, to, ci2), from, other1)]

\* lines 186-233: the target is read from the Symbol store
ReferenceStored(st, db, from, to, kind) ==
    LET current0 == MapGet(db, to, NullCursorInfo)
        current1 == [current0 EXCEPT !.references = AddToValue(@, {from})]
        changed1 == AddToChanged(current0.references, {from})
    IN IF kind = NormalReference
       THEN IF changed1
            THEN [st EXCEPT !.batch = Append(@, <<to, current1>>), !.changedSymbols = TRUE]
            ELSE st
       ELSE LET other0 == MapGet(db, from, NullCursorInfo)
                other1 == [other0 EXCEPT !.references =
                               AddToValue(AddToValue(@, {from}), current1.references)]
                current2 == [current1 EXCEPT !.references = AddToValue(@, other1.references)]
                other2 == [other1 EXCEPT !.target = IF @ = NullLocation THEN to ELSE @]
                changedOther == \/ AddToChanged(other0.references, {from})
                                \/ AddToChanged(AddToValue(other0.references, {from}),
                                                current1.references)
                                \/ other0.target = NullLocation
                changedCurrent == changed1 \/ AddToChanged(current1.references, other1.references)
                b1 == IF changedOther THEN Append(st.batch, <<from, other2>>) ELSE st.batch
                b2 == IF changedCurrent THEN Append(b1, <<to, current2>>) ELSE b1
            IN [st EXCEPT !.batch = b2,
                          !.changedSymbols = @ \/ changedOther \/ changedCurrent]

\* lines 166-234: one iteration of the loop over the staged references
ReferenceStep(st, db, from, to, kind) ==
    IF to \in DOMAIN st.symbols
    THEN ReferenceStaged(st, from, to, kind)
    ELSE ReferenceStored(st, db, from, to, kind)

RECURSIVE ReferenceLoop(_, _, _, _)
ReferenceLoop(st, db, refs, order) ==
    IF order = << >> THEN st
    ELSE LET from == Head(order)
         IN ReferenceLoop(ReferenceStep(st, db, from, refs[from][1], refs[from][2]),
                          db, refs, Tail(order))

\* lines 245-256: unite every staged symbol with the stored one
RECURSIVE SymbolLoop(_, _, _)
SymbolLoop(st, db, order) ==
    IF order = << >> THEN st
    ELSE LET key == Head(order)
             added == st.symbols[key]
             current == MapGet(db, key, NullCursorInfo)
             next == IF UniteChanged(current, added)
                     THEN [st EXCEPT !.batch = Append(@, <<key, UniteValue(current, added)>>),
                                     !.changedSymbols = TRUE]
                     ELSE st
         IN SymbolLoop(next, db, Tail(order))

\* lines 187-195, 238: whether the cycle opens the Symbol store
NeedsSymbolDB(syms, refs) ==
    \/ ~IsEmptyMap(syms)
    \/ \E from \in DOMAIN refs : refs[from][1] \notin DOMAIN syms

\* lines 160-260: references, then symbols, then one Write of symbolsBatch
SymbolsCycle(db, syms, refs, refOrder) ==
    LET st0 == [symbols |-> syms, batch |-> << >>, changedSymbols |-> FALSE]
        st1 == ReferenceLoop(st0, db, refs, refOrder)
    IN SymbolLoop(st1, db, CHOOSE o \in Orders(DOMAIN st1.symbols) : TRUE)

WriterSymbols ==
    /\ pc = "symbols"
    /\ \E refOrder \in Orders(DOMAIN references) :
          LET st == SymbolsCycle(dbSymbol, symbols, references, refOrder)
          IN IF st.changedSymbols
             THEN /\ dbSymbol' = ApplyBatch(dbSymbol, st.batch)
                  /\ wrote' = wrote \cup {"Symbol"}
             ELSE UNCHANGED << dbSymbol, wrote >>
    /\ pc' = "deps"
    /\ UNCHANGED << stagingVars, mStopped, localVars, dbSymbolName, dbDependency, dbPch,
                    dbFileInformation, log, cycleLog, dbPre, calls >>

\* (mutant) every staged key is written, grown or not
DependencyBatchAlways(db, staged) ==
    [k \in DOMAIN staged |-> MapGet(db, k, {}) \cup staged[k]]

\* lines 268-281
DependencyBatch(db, staged) ==
    LET grown == { k \in DOMAIN staged :
                     Cardinality(MapGet(db, k, {}) \cup staged[k]) > Cardinality(MapGet(db, k, {})) }
    IN [k \in grown |-> MapGet(db, k, {}) \cup staged[k]]

\* lines 262-285
WriterDependencies ==
    /\ pc = "deps"
    /\ IF IsEmptyMap(dependencies) THEN UNCHANGED << dbDependency, wrote >>
       ELSE LET batch == DependencyBatch(dbDependency, dependencies)
            IN IF ~IsEmptyMap(batch)
               THEN /\ dbDependency' = Overwrite(dbDependency, batch)
                    /\ wrote' = wrote \cup {"Dependency"}
               ELSE UNCHANGED << dbDependency, wrote >>
    /\ pc' = "pch"
    /\ UNCHANGED << stagingVars, mStopped, localVars, dbSymbolName, dbSymbol, dbPch,
                    dbFileInformation, log, cycleLog, dbPre, calls >>

\* lines 286-291: the "pch" key of the Dependency store is replaced
WriterPchDependencies ==
    /\ pc = "pch"
    /\ IF IsEmptyMap(pchDependencies) THEN UNCHANGED << dbPch, wrote >>
       ELSE /\ dbPch' = pchDependencies
            /\ wrote' = wrote \cup {"Pch"}
    /\ pc' = "info"
    /\ UNCHANGED << stagingVars, mStopped, localVars, dbSymbolName, dbSymbol, dbDependency,
                    dbFileInformation, log, cycleLog, dbPre, calls >>

\* lines 292-307: every staged entry is put, the batch is always written
WriterInformations ==
    /\ pc = "info"
    /\ IF IsEmptyMap(informations) THEN UNCHANGED << dbFileInformation, wrote >>
       ELSE /\ dbFileInformation' = Overwrite(dbFileInformation, informations)
            /\ wrote' = wrote \cup {"FileInformation"}
    /\ pc' = "wait"
    /\ UNCHANGED << stagingVars, mStopped, localVars, dbSymbolName, dbSymbol, dbDependency,
                    dbPch, log, cycleLog, dbPre, calls >>

\* the LevelDB::open calls of one cycle that can fail, by position
OpenFails ==
    \/ /\ ~IsEmptyMap(symbolNames) /\ WriterOpenFailed("names")
    \/ /\ NeedsSymbolDB(symbols, references) /\ WriterOpenFailed("symbols")
    \/ /\ ~IsEmptyMap(dependencies) /\ WriterOpenFailed("deps")
    \/ /\ ~IsEmptyMap(pchDependencies) /\ WriterOpenFailed("pch")
    \/ /\ ~IsEmptyMap(informations) /\ WriterOpenFailed("info")

(***************************************************************************)
(* IndexerSyncer: properties                                               *)
(***************************************************************************)
\* a writer cycle has run from its swap to the end of the loop body
CycleDone == pc = "wait" /\ cycleLog # {}

CallsOf(op) == { c[2] : c \in { c \in cycleLog : c[1] = op } }

\* the union of all sets passed to addSymbolNames for key k before the last swap
StagedNamesFor(k) ==
    UNION { a[k] : a \in { a \in CallsOf("addSymbolNames") : k \in DOMAIN a } }

\* C6: after a writer cycle, symbol_names[k] is the union of every set staged
\* for k by the addSymbolNames calls made before the swap and the value the
\* store held for k before the cycle.
ThmC6 ==
    CycleDone =>
        \A k \in Names :
            MapGet(dbSymbolName, k, {}) = MapGet(dbPre.SymbolName, k, {}) \cup StagedNamesFor(k)

WitC6 ==
    /\ CycleDone
    /\ \E k \in Names :
          /\ MapGet(dbPre.SymbolName, k, {}) # {}
          /\ ~(StagedNamesFor(k) \subseteq MapGet(dbPre.SymbolName, k, {}))
          /\ ~(MapGet(dbPre.SymbolName, k, {}) \subseteq StagedNamesFor(k))

\* the staged references of the last cycle whose kind is not Normal
NonNormal == { from \in DOMAIN references : references[from][2] # NormalReference }

SymbolNamesPresent ==
    \A k \in DOMAIN symbolNames : symbolNames[k] \subseteq MapGet(dbSymbolName, k, {})
SymbolsPresent ==
    \A l \in DOMAIN symbols : ~UniteChanged(MapGet(dbSymbol, l, NullCursorInfo), symbols[l])
ReferencesPresent ==
    \A from \in DOMAIN references :
        from \in MapGet(dbSymbol, references[from][1], NullCursorInfo).references
DependenciesPresent ==
    \A k \in DOMAIN dependencies : dependencies[k] \subseteq MapGet(dbDependency, k, {})
InformationsPresent ==
    \A k \in DOMAIN informations :
        k \in DOMAIN dbFileInformation /\ dbFileInformation[k] = informations[k]

\* C8: every delta passed to addSymbolNames, addSymbols, addReferences,
\* addDependencies or addFileInformation is present in its store at the end
\* of the first writer cycle that swaps the staging buffer after the call
\* (the deadline of the claim, which a finite run refutes).
OrigC8 ==
    CycleDone =>
        /\ SymbolNamesPresent /\ SymbolsPresent /\ ReferencesPresent
        /\ DependenciesPresent /\ InformationsPresent

\* C28: at the end of a writer cycle, for every reference from -> to the
\* cycle swapped out whose target is not among the symbols it swapped out,
\* the stored symbols[to].references contains from
OrigC28 ==
    CycleDone =>
        \A from \in DOMAIN references :
            references[from][1] \notin DOMAIN symbols =>
                from \in MapGet(dbSymbol, references[from][1], NullCursorInfo).references

\* the deltas swapped by the last cycle were all contained in the stores
\* when the cycle began
Contained ==
    /\ \A k \in DOMAIN symbolNames : symbolNames[k] \subseteq MapGet(dbPre.SymbolName, k, {})
    /\ \A l \in DOMAIN symbols : ~UniteChanged(MapGet(dbPre.Symbol, l, NullCursorInfo), symbols[l])
    /\ \A from \in DOMAIN references :
          LET to == references[from][1]
              t == MapGet(dbPre.Symbol, to, NullCursorInfo)
              f == MapGet(dbPre.Symbol, from, NullCursorInfo)
          IN /\ from \in t.references
             /\ references[from][2] # NormalReference =>
                   /\ from \in f.references
                   /\ f.references = t.references
                   /\ f.target # NullLocation
    /\ \A k \in DOMAIN dependencies : dependencies[k] \subseteq MapGet(dbPre.Dependency, k, {})
    /\ IsEmptyMap(pchDependencies) \/ pchDependencies = dbPre.Pch
    /\ \A k \in DOMAIN informations :
          k \in DOMAIN dbPre.FileInformation /\ dbPre.FileInformation[k] = informations[k]

\* C9 (as stated): a writer cycle whose staged deltas are all already
\* contained in the stores issues no write in any store.
OrigC9 == (CycleDone /\ Contained) => wrote = {}

\* C9 (amended): a writer cycle whose staged deltas are all already contained
\* in the stores issues no batch write to the symbol-name, symbol and
\* dependency stores; staged file information and staged pch dependencies
\* are written in every cycle that holds them, contained or not.
ThmC9 ==
    CycleDone =>
        /\ Contained => wrote \cap {"SymbolName", "Symbol", "Dependency"} = {}
        /\ "FileInformation" \in wrote <=> ~IsEmptyMap(informations)
        /\ "Pch" \in wrote <=> ~IsEmptyMap(pchDependencies)

WitC9 ==
    /\ CycleDone /\ Contained
    /\ NonNormal # {}
    /\ wrote = {}

\* what a store holds when all of the last cycle's writes to it are applied
SymbolNameWhole ==
    Overwrite(dbPre.SymbolName, SymbolNameBatch(dbPre.SymbolName, symbolNames))
SymbolWhole ==
    { ApplyBatch(dbPre.Symbol, SymbolsCycle(dbPre.Symbol, symbols, references, o).batch) :
        o \in Orders(DOMAIN references) }
DependencyWhole ==
    << Overwrite(dbPre.Dependency, DependencyBatch(dbPre.Dependency, dependencies)),
       IF IsEmptyMap(pchDependencies) THEN dbPre.Pch ELSE pchDependencies >>
FileInformationWhole == Overwrite(dbPre.FileInformation, informations)

\* C11: wherever the process is killed, every store holds either none or all
\* of the writes the current cycle makes to it (the Dependency store is its
\* dependency keys together with its "pch" key).
OrigC11 ==
    /\ dbSymbolName \in { dbPre.SymbolName, SymbolNameWhole }
    /\ dbSymbol \in { dbPre.Symbol } \cup SymbolWhole
    /\ << dbDependency, dbPch >> \in { << dbPre.Dependency, dbPre.Pch >>, DependencyWhole }
    /\ dbFileInformation \in { dbPre.FileInformation, FileInformationWhole }

(***************************************************************************)
(* Server: value domains                                                   *)
(***************************************************************************)
\* the 32-bit int of mJobId and of the keys of mPendingLookups
IntMax == 2147483647
IntMin == -IntMax - 1

\* connections the daemon accepts in one behaviour
Conns == {1, 2}

\* number of query jobs created in one behaviour
MaxJobs == 2
\* number of output events one job emits
MaxOutputs == 1
\* number of Project objects created in one behaviour
MaxInsts == 2
\* the MakefileParsers running at a time
MaxParsers == 1
\* the same, where one modification event restarts several makefiles
MaxRemakes == 2

\* paths are strings, modelled as sequences of characters
NoPath == << >>
Keys == { <<1>>, <<1, 2>> }
Roots == { <<1>>, <<1, 2>> }
QueryPaths == { <<1, 2, 1>>, <<1, 1>>, <<2, 1>> }
Patterns == { <<1>>, <<2>> }

\* !strncmp(root.constData(), path.constData(), root.size())
IsPrefix(root, path) ==
    /\ Len(root) <= Len(path)
    /\ \A i \in 1..Len(root) : root[i] = path[i]

\* RegExp::indexIn(path) != -1, for a pattern without metacharacters
RegExpIndexIn(pattern, path) ==
    \E i \in 0..(Len(path) - Len(pattern)) :
        \A j \in 1..Len(pattern) : path[i + j] = pattern[j]

\* operator< of Path (ByteArray), the order of Map<Path, ...> and Set<Path>
PathLess(a, b) ==
    \/ /\ Len(a) < Len(b) /\ IsPrefix(a, b)
    \/ \E i \in 1..Len(a) :
          /\ i <= Len(b)
          /\ \A j \in 1..(i - 1) : a[j] = b[j]
          /\ a[i] < b[i]

\* begin() .. end() of a Map<Path, ...> or Set<Path>
RECURSIVE SortedPaths(_)
SortedPaths(S) ==
    IF S = {} THEN << >>
    ELSE LET first == CHOOSE a \in S : \A b \in S \ {a} : PathLess(a, b)
         IN <<first>> \o SortedPaths(S \ {first})

VARIABLES
    \* Connection objects: "none" (not yet accepted), "connected",
    \* "disconnected" (peer closed), "destroyed"; and the ones finish() was called
    \* on since their last message arrived
    conns, finished,
    \* Server members
    mPendingLookups, mJobId,
    mProjects, mCurrentProject, mMakefiles, mGRTagsDirs, mSmartProjects,
    \* the connections whose hasUpdatedProject flag is set
    hasUpdatedProject,
    \* mMakefilesWatcher: the watched paths; the projects file on disk
    watched, projectsFile,
    \* the files of mOptions.dataDir written by Server::save, by name
    dataDir,
    \* mSaveTimers; the timers of the event loop, id to user data (an indexer)
    mSaveTimers, timers,
    \* Server::save: its position, the indexer it saves, the FILE it has open
    savePc, saving, stream,
    \* the MakefileParsers running: makefile, connection (0: none), stopped
    parsers,
    \* the Job objects by id, the JobOutputEvents posted to the event loop
    jobs, events,
    \* the event loop and the server: "running", "exiting" (EventLoop::exit was
    \* called), "cleared" (Server::clear has run)
    eventLoop,
    \* history: mJobId before the last nextId(), the Project objects created,
    \* the last handler run with what it saw
    prevJobId, insts, lastOp,
    \* history: the ids whose pending-lookup entry a connection's destruction removed
    purgedJobs,
    \* Server::init: its position ("listen", "restore", "reload", then "running"
    \* or "failed": what it returned), and what its listen loop has done so far
    initPc, initLog,
    \* Location: the path-to-id map of the process
    pathsToIds,
    \* history: the path-to-id map fileids was last written from
    savedIds

dispVars == << conns, finished, mPendingLookups, mJobId, jobs, events, prevJobId, purgedJobs >>
regVars == << mProjects, mCurrentProject, mMakefiles, mGRTagsDirs, mSmartProjects,
              hasUpdatedProject, watched, projectsFile, parsers, insts, dataDir >>
saveVars == << mSaveTimers, timers, savePc, saving, stream, savedIds >>
bootVars == << initPc, initLog, pathsToIds >>
loopVars == << eventLoop, bootVars >>
serverVars == << dispVars, regVars, saveVars, loopVars, lastOp >>

vars == << syncVars, serverVars >>

\* mJobId when the behaviour begins: a fresh daemon, and daemons that have
\* handed out ids up to the ends of the int range
JobIdStarts == { 0, IntMax - 1, -2 }

ServerInit ==
    /\ conns = [c \in Conns |-> "none"] /\ finished = {}
    /\ mPendingLookups = EmptyMap
    /\ mJobId \in JobIdStarts /\ prevJobId = mJobId
    /\ mProjects = EmptyMap /\ mCurrentProject = 0
    /\ mMakefiles = EmptyMap /\ mGRTagsDirs = {} /\ mSmartProjects = EmptyMap
    /\ watched = {} /\ hasUpdatedProject = {}
    /\ projectsFile = [Makefiles |-> EmptyMap, GRTags |-> {}, SmartProjects |-> EmptyMap]
    /\ parsers = {}
    /\ dataDir = EmptyMap
    /\ mSaveTimers = EmptyMap /\ timers = EmptyMap
    /\ savePc = "idle" /\ saving = 0 /\ stream = [name |-> NoPath, out |-> << >>]
    /\ jobs = EmptyMap /\ events = << >>
    /\ eventLoop = "running"
    /\ initPc = "running" /\ initLog = << "listen ok" >>
    /\ pathsToIds = EmptyMap /\ savedIds = EmptyMap
    /\ insts = 0
    /\ lastOp = [op |-> "init"]
    /\ purgedJobs = {}

(***************************************************************************)
(* Project (the facade of file manager and indexer)                        *)
(***************************************************************************)
NewProject(inst, kind) ==
    [inst |-> inst, kind |-> kind, srcRoot |-> NoPath, resolvedSrcRoot |-> NoPath,
     valid |-> FALSE, sources |-> EmptyMap]

\* Project::init(srcRoot): the source root is known, the project is valid
ProjectInit(p, srcRoot, resolved) ==
    [p EXCEPT !.srcRoot = srcRoot, !.resolvedSrcRoot = resolved, !.valid = TRUE]

\* Project::unload(): releases indexer and file manager, clears the source root
ProjectUnload(p) ==
    [p EXCEPT !.srcRoot = NoPath, !.resolvedSrcRoot = NoPath, !.valid = FALSE,
              !.sources = EmptyMap]

\* project->indexer is set
HasIndexer(p) == p.valid /\ p.kind # "GRTAGS"

\* Path::resolved(srcRoot): the root itself, or where a symbolic link leads
ResolvedOf(srcRoot) == IF srcRoot = NoPath THEN { NoPath } ELSE { srcRoot, <<2>> }

(***************************************************************************)
(* Server: the project registry as a value, and the member functions that  *)
(* several handlers call                                                   *)
(***************************************************************************)
Reg == [mProjects |-> mProjects, mCurrentProject |-> mCurrentProject,
        mMakefiles |-> mMakefiles, mGRTagsDirs |-> mGRTagsDirs,
        mSmartProjects |-> mSmartProjects, watched |-> watched,
        projectsFile |-> projectsFile, parsers |-> parsers, insts |-> insts,
        hasUpdatedProject |-> hasUpdatedProject, dataDir |-> dataDir]

SetReg(R) ==
    /\ mProjects' = R.mProjects /\ mCurrentProject' = R.mCurrentProject
    /\ mMakefiles' = R.mMakefiles /\ mGRTagsDirs' = R.mGRTagsDirs
    /\ mSmartProjects' = R.mSmartProjects /\ watched' = R.watched
    /\ projectsFile' = R.projectsFile /\ parsers' = R.parsers /\ insts' = R.insts
    /\ hasUpdatedProject' = R.hasUpdatedProject
    /\ dataDir' = R.dataDir

\* the MakefileParsers running at a time stay within the bound
ParsersBounded(n) == Cardinality(parsers') <= n

InstsOf(R) == { R.mProjects[k].inst : k \in DOMAIN R.mProjects }

\* the Project objects a running job keeps alive through its shared_ptr
HeldByJobs == { jobs[i].project : i \in { i \in DOMAIN jobs : jobs[i].alive } }

\* mCurrentProject.lock(): null (0) once the Project object is gone
Lock(R) ==
    IF R.mCurrentProject \in InstsOf(R) \cup HeldByJobs THEN R.mCurrentProject ELSE 0

KeyOfInst(R, inst) == CHOOSE k \in DOMAIN R.mProjects : R.mProjects[k].inst = inst

\* the elements of a list
Range(list) == { list[i] : i \in 1..Len(list) }

\* rx.isEmpty() || rx.indexIn(it->first) != -1
RemakeMatches(pattern, m) == pattern = NoPath \/ RegExpIndexIn(pattern, m)

\* the loop of Server::remake: the make() calls, in the order of mMakefiles,
\* each with the MakefileInformation stored under the key
RECURSIVE RemakeLoop(_, _, _)
RemakeLoop(R, pattern, keys) ==
    IF keys = << >> THEN << >>
    ELSE (IF RemakeMatches(pattern, Head(keys))
          THEN << [makefile |-> Head(keys), info |-> R.mMakefiles[Head(keys)]] >>
          ELSE << >>) \o RemakeLoop(R, pattern, Tail(keys))

RemakeCalls(R, pattern) == RemakeLoop(R, pattern, SortedPaths(DOMAIN R.mMakefiles))

\* Server::remake with make(): a MakefileParser is started for every
\* registered makefile the pattern matches
Remake(R, pattern) ==
    [R EXCEPT !.parsers = @ \cup { [makefile |-> call.makefile, info |-> call.info,
                                     conn |-> 0, stopped |-> FALSE] :
                                      call \in Range(RemakeCalls(R, pattern)) }]

\* (mutant) mCurrentProject is assigned only while it is null
SetCurrentProjectIfNull(R, inst) ==
    IF R.mCurrentProject # 0 THEN R ELSE [R EXCEPT !.mCurrentProject = inst]

\* Server::setCurrentProject(const shared_ptr<Project> &)
SetCurrentProject(R, inst) ==
    LET R1 == [R EXCEPT !.mCurrentProject = inst]
    IN IF inst # 0 /\ ~R.mProjects[KeyOfInst(R, inst)].valid
       THEN Remake(R1, KeyOfInst(R, inst))
       ELSE R1

\* Server::writeProjects
WriteProjects(R) ==
    [R EXCEPT !.projectsFile = [Makefiles |-> R.mMakefiles, GRTags |-> R.mGRTagsDirs,
                                SmartProjects |-> R.mSmartProjects],
              !.watched = DOMAIN R.mMakefiles]

\* (mutant) a match of the same length replaces the earlier one
LongerOrEqual(matchLength, longest) == matchLength >= longest

\* matchLength > longest
Longer(matchLength, longest) == matchLength > longest

\* the body of the loop of updateProjectForLocation for one project
UpdateStep(p, path, cur, st) ==
    LET rootHit == p.srcRoot # NoPath /\ IsPrefix(p.srcRoot, path)
        st1 == IF rootHit /\ p.inst = cur THEN [st EXCEPT !.returned = TRUE]
               ELSE IF rootHit /\ Longer(Len(p.srcRoot), st.longest)
               THEN [st EXCEPT !.match = p.inst, !.longest = Len(p.srcRoot)]
               ELSE st
        resolvedHit == p.resolvedSrcRoot # NoPath /\ IsPrefix(p.resolvedSrcRoot, path)
    IN IF st1.returned THEN st1
       ELSE IF resolvedHit /\ Longer(Len(p.resolvedSrcRoot), st1.longest)
       THEN [st1 EXCEPT !.match = p.inst, !.longest = Len(p.resolvedSrcRoot)]
       ELSE st1

RECURSIVE UpdateLoop(_, _, _, _, _)
UpdateLoop(R, keys, path, cur, st) ==
    IF keys = << >> \/ st.returned THEN st
    ELSE UpdateLoop(R, Tail(keys), path, cur, UpdateStep(R.mProjects[Head(keys)], path, cur, st))

\* Server::updateProjectForLocation(const Path &): the registry after it, and its result
UpdateProjectForLocation(R, path) ==
    LET st == UpdateLoop(R, SortedPaths(DOMAIN R.mProjects), path, Lock(R),
                         [match |-> 0, longest |-> -1, returned |-> FALSE])
    IN IF st.returned THEN [reg |-> R, ret |-> TRUE]
       ELSE IF st.match # 0 THEN [reg |-> SetCurrentProject(R, st.match), ret |-> TRUE]
       ELSE [reg |-> R, ret |-> FALSE]

\* a message arrives on a connection that is still open
CanReceive(c) == conns[c] = "connected"

\* Server::isIndexed; type is what stat says of the path ("file", "dir" or
\* "none"), fileId what Location::fileId returns for it, hit what
\* Project::isIndexed(fileId), respectively FileManager::contains(path), returns
isIndexed(c, path, type, fileId, hit) ==
    /\ CanReceive(c)
    /\ LET old == Lock(Reg)
           u == IF (type = "file" /\ fileId # 0) \/ type = "dir"
                THEN UpdateProjectForLocation(Reg, path).reg ELSE Reg
           cur == Lock(u)
           one == ((type = "file" /\ fileId # 0) \/ type = "dir") /\ cur # 0 /\ hit
           R1 == IF type = "file" /\ fileId # 0 /\ old # 0
                 THEN [u EXCEPT !.mCurrentProject = old] ELSE u
       IN /\ SetReg(R1)
          /\ lastOp' = [op |-> "isIndexed", path |-> path, conn |-> c, type |-> type,
                        old |-> old, out |-> IF one THEN "1" ELSE "0"]
    /\ finished' = finished \cup {c}
    /\ UNCHANGED << conns, mPendingLookups, mJobId, jobs, events, prevJobId, purgedJobs >>

\* Server::hasFileManager
hasFileManager(c, path) ==
    /\ CanReceive(c)
    /\ LET u == UpdateProjectForLocation(Reg, path)
       IN /\ SetReg(u.reg)
          /\ lastOp' = [op |-> "hasFileManager", path |-> path, conn |-> c]
    /\ finished' = finished \cup {c}
    /\ UNCHANGED << conns, mPendingLookups, mJobId, jobs, events, prevJobId, purgedJobs >>

\* Server::grtag
Grtag(R, dir) ==
    IF dir \in DOMAIN R.mProjects THEN [reg |-> R, ret |-> FALSE]
    ELSE LET inst == R.insts + 1
             R1 == [R EXCEPT !.insts = inst,
                             !.mProjects = MapPut(@, dir,
                                 ProjectInit(NewProject(inst, "GRTAGS"), dir, dir)),
                             !.mGRTagsDirs = @ \cup {dir}]
         IN [reg |-> SetCurrentProject(WriteProjects(R1), inst), ret |-> TRUE]

\* a Project object can still be created within the bound
CanCreate(R) == R.insts < MaxInsts

\* Server::handleProjectMessage, GRTagsType
handleProjectMessageGRTags(c, path) ==
    /\ CanReceive(c) /\ CanCreate(Reg)
    /\ SetReg(Grtag(Reg, path).reg)
    /\ lastOp' = [op |-> "grtag"]
    /\ finished' = finished \cup {c}
    /\ UNCHANGED << conns, mPendingLookups, mJobId, jobs, events, prevJobId, purgedJobs >>

(***************************************************************************)
(* Server: connections, pending lookups, job ids, job output events        *)
(***************************************************************************)
\* Server::onNewConnection: a Connection is created for an accepted client
onNewConnection(c) ==
    /\ conns[c] = "none"
    /\ conns' = [conns EXCEPT ![c] = "connected"]
    /\ lastOp' = [op |-> "onNewConnection", conn |-> c]
    /\ UNCHANGED << finished, mPendingLookups, mJobId, jobs, events, prevJobId, purgedJobs,
                    regVars >>

\* the peer closes its end: Connection::isConnected() turns false
ClientDisconnects(c) ==
    /\ conns[c] = "connected"
    /\ conns' = [conns EXCEPT ![c] = "disconnected"]
    /\ lastOp' = [op |-> "disconnected", conn |-> c]
    /\ UNCHANGED << finished, mPendingLookups, mJobId, jobs, events, prevJobId, purgedJobs,
                    regVars >>

\* (mutant) the loop stops at the first entry of the connection
ErasePendingFirst(pending, o) ==
    LET mine == { i \in DOMAIN pending : pending[i] = o }
    IN IF mine = {} THEN pending
       ELSE [i \in DOMAIN pending \ { CHOOSE i \in mine : \A j \in mine : i <= j } |-> pending[i]]

\* lines 195-203: every entry whose value is the connection is erased
ErasePending(pending, o) ==
    [i \in { i \in DOMAIN pending : pending[i] # o } |-> pending[i]]

\* Server::onConnectionDestroyed
onConnectionDestroyed(o) ==
    /\ conns[o] \in {"connected", "disconnected"}
    /\ conns' = [conns EXCEPT ![o] = "destroyed"]
    /\ mPendingLookups' = ErasePending(mPendingLookups, o)
    /\ purgedJobs' = purgedJobs \cup { i \in DOMAIN mPendingLookups : mPendingLookups[i] = o }
    /\ lastOp' = [op |-> "onConnectionDestroyed", conn |-> o, before |-> mPendingLookups,
                  aborted |-> { i \in DOMAIN jobs : jobs[i].aborted }]
    /\ UNCHANGED << finished, mJobId, jobs, events, prevJobId, regVars >>

\* ++mJobId on the 32-bit counter: past INT_MAX the stored value wraps to INT_MIN
Increment32(x) == IF x = IntMax THEN IntMin ELSE x + 1

\* (mutant) the zero check is missing
NextIdNoZeroCheck(x) == Increment32(x)

\* Server::nextId: the value of mJobId after the call, which is the value returned
NextId(x) ==
    LET a == Increment32(x)
    IN IF a = 0 THEN Increment32(a) ELSE a

\* Server::findSymbols (listSymbols, status and referencesForName are alike):
\* a query job on the current project
findSymbols(c) ==
    /\ CanReceive(c)
    /\ IF Lock(Reg) = 0
       THEN /\ finished' = finished \cup {c}
            /\ lastOp' = [op |-> "findSymbols", conn |-> c, job |-> FALSE, id |-> 0]
            /\ UNCHANGED << mPendingLookups, mJobId, jobs, prevJobId >>
       ELSE LET id == NextId(mJobId)
            IN /\ Cardinality(DOMAIN jobs) < MaxJobs
               /\ mJobId' = id /\ prevJobId' = mJobId
               /\ mPendingLookups' = MapPut(mPendingLookups, id, c)
               /\ jobs' = MapPut(jobs, id, [aborted |-> FALSE, alive |-> TRUE,
                                            project |-> Lock(Reg), emitted |-> 0,
                                            done |-> FALSE, pool |-> "queued"])
               /\ lastOp' = [op |-> "findSymbols", conn |-> c, job |-> TRUE, id |-> id]
               /\ finished' = finished \ {c}
    /\ UNCHANGED << conns, events, purgedJobs, regVars >>

\* ThreadPool: a worker takes a job from the backlog and runs it
ThreadPoolRun(id) ==
    /\ id \in DOMAIN jobs /\ jobs[id].pool = "queued"
    /\ jobs' = [jobs EXCEPT ![id].pool = "started"]
    /\ lastOp' = [op |-> "ThreadPoolRun"]
    /\ UNCHANGED << conns, finished, mPendingLookups, mJobId, prevJobId, purgedJobs,
                    events, regVars >>

\* a running job posts a JobOutputEvent (id, out, finish) to the event loop
JobOutput(id, out, finish) ==
    /\ id \in DOMAIN jobs /\ jobs[id].alive /\ ~jobs[id].done
    /\ jobs[id].pool = "started"
    /\ jobs[id].emitted < MaxOutputs
    /\ events' = Append(events, [id |-> id, out |-> out, finish |-> finish])
    /\ jobs' = [jobs EXCEPT ![id].emitted = @ + 1, ![id].done = finish]
    /\ lastOp' = [op |-> "JobOutput"]
    /\ UNCHANGED << conns, finished, mPendingLookups, mJobId, prevJobId, purgedJobs,
                    regVars >>

\* a job that has sent its last output, or has seen its abort flag, ends;
\* the thread pool drops the Job object and with it the job's shared_ptr<Project>
JobExit(id) ==
    /\ id \in DOMAIN jobs /\ jobs[id].alive
    /\ jobs[id].pool = "started"
    /\ jobs[id].done \/ jobs[id].aborted
    /\ jobs' = [jobs EXCEPT ![id] = [aborted |-> @.aborted, alive |-> FALSE, project |-> 0,
                                     emitted |-> 0, done |-> TRUE, pool |-> "started"]]
    /\ lastOp' = [op |-> "JobExit"]
    /\ UNCHANGED << conns, finished, mPendingLookups, mJobId, prevJobId, purgedJobs,
                    events, regVars >>

\* (mutant) an event whose id is not in the table is dropped without aborting
EventAbortsIfFound(e, pending, cs, writeOk) ==
    /\ e.id \in DOMAIN pending
    /\ \/ cs[pending[e.id]] # "connected"
       \/ e.out /\ ~writeOk

\* (mutant) a failed write is not noticed
EventAbortsUnlessWritten(e, pending, cs, writeOk) ==
    \/ e.id \notin DOMAIN pending
    \/ cs[pending[e.id]] # "connected"

\* lines 936-951: the cases in which Server::event aborts the job
EventAborts(e, pending, cs, writeOk) ==
    \/ e.id \notin DOMAIN pending
    \/ cs[pending[e.id]] # "connected"
    \/ e.out /\ ~writeOk

\* Server::event, JobOutputEvent: writeOk is what Connection::write returns
event(writeOk) ==
    /\ events # << >>
    /\ LET e == Head(events)
       IN /\ events' = Tail(events)
          /\ IF EventAborts(e, mPendingLookups, conns, writeOk)
             THEN /\ jobs' = IF jobs[e.id].alive THEN [jobs EXCEPT ![e.id].aborted = TRUE]
                             ELSE jobs
                  /\ UNCHANGED finished
             ELSE /\ finished' = IF e.finish THEN finished \cup {mPendingLookups[e.id]}
                                 ELSE finished
                  /\ UNCHANGED jobs
          /\ lastOp' = [op |-> "event", id |-> e.id, finish |-> e.finish,
                        aborts |-> EventAborts(e, mPendingLookups, conns, writeOk),
                        wasAlive |-> jobs[e.id].alive]
    /\ UNCHANGED << conns, mPendingLookups, mJobId, prevJobId, purgedJobs, regVars >>

\* Server::shutdown
shutdown(c) ==
    /\ CanReceive(c)
    /\ eventLoop' = "exiting"
    /\ finished' = finished \cup {c}
    /\ lastOp' = [op |-> "shutdown", conn |-> c, out |-> "Shutting down"]
    /\ UNCHANGED << conns, mPendingLookups, mJobId, jobs, events, prevJobId, purgedJobs,
                    regVars >>

\* (mutant) mThreadPool is taken to be null: the backlog is left as it is
ClearThreadPoolSkipped(js) == js

\* lines 67-71: clearBackLog() drops the queued jobs (the pool's shared_ptr to
\* each is released), then the pool is deleted
ClearThreadPool(js) ==
    [id \in DOMAIN js |->
        IF js[id].pool = "queued"
        THEN [aborted |-> js[id].aborted, alive |-> FALSE, project |-> 0, emitted |-> 0,
              done |-> TRUE, pool |-> "discarded"]
        ELSE js[id]]

\* Server::clear, called by ~Server once the event loop has returned
clear ==
    /\ eventLoop = "exiting"
    /\ eventLoop' = "cleared"
    /\ jobs' = ClearThreadPool(jobs)
    /\ SetReg([Reg EXCEPT !.mProjects = EmptyMap, !.mCurrentProject = 0])
    /\ lastOp' = [op |-> "clear"]
    /\ UNCHANGED << conns, finished, mPendingLookups, mJobId, events, prevJobId, purgedJobs >>

\* the event loop dispatches handlers until exit() is called
Running == eventLoop = "running"
\* the workers of the thread pool run until the pool is deleted
PoolRuns == eventLoop # "cleared"

\* the project directories used where the registry is only a source of a current project
DispatchKeys == {<<1>>}

(***************************************************************************)
(* Specifications                                                          *)
(***************************************************************************)
Init == SyncInit /\ ServerInit

\* a daemon that has handed out no job id yet
FreshInit == Init /\ mJobId = 0

SyncNext ==
    \/ \E a \in SymbolNameInputs : addSymbolNames(a) /\ UNCHANGED serverVars
    \/ \E a \in SymbolInputs : addSymbols(a) /\ UNCHANGED serverVars
    \/ \E a \in ReferenceInputs : addReferences(a) /\ UNCHANGED serverVars
    \/ \E a \in DependencyInputs : addDependencies(a) /\ UNCHANGED serverVars
    \/ \E a \in PchDependencyInputs : setPchDependencies(a) /\ UNCHANGED serverVars
    \/ \E f \in Files, a \in ArgLists, t \in TimeStamps :
          addFileInformation(f, a, t) /\ UNCHANGED serverVars
    \/ stop /\ UNCHANGED serverVars
    \/ notify /\ UNCHANGED serverVars
    \/ WriterWait /\ UNCHANGED serverVars
    \/ WriterTimeout /\ UNCHANGED serverVars
    \/ WriterSwap /\ UNCHANGED serverVars
    \/ WriterStopped /\ UNCHANGED serverVars
    \/ WriterSymbolNames /\ UNCHANGED serverVars
    \/ WriterSymbols /\ UNCHANGED serverVars
    \/ WriterDependencies /\ UNCHANGED serverVars
    \/ WriterPchDependencies /\ UNCHANGED serverVars
    \/ WriterInformations /\ UNCHANGED serverVars
    \/ OpenFails /\ UNCHANGED serverVars

\* the indexer's staging buffer, its writer thread and the KV stores; the
\* server stays as constructed
SpecSyncer == FreshInit /\ [][SyncNext]_vars


(***************************************************************************)
(* IndexerSyncer: the wake-up of the writer and the swap                   *)
(***************************************************************************)
\* C29: a producer call made while the writer is blocked in mCond.wait wakes it
OrigC29 == [][(pc = "blocked" /\ calls' = calls + 1) => pc' # "blocked"]_vars

\* the writer is between its swap and the end of the loop body, the lock released
Flushing == pc \in { "names", "symbols", "deps", "pch", "info" }

\* a staging map of sets after a producer call holds what it held before
SetsKept(m, m1) == \A k \in DOMAIN m : k \in DOMAIN m1 /\ m[k] \subseteq m1[k]

\* C30: the swap moves all six staging maps into the locals of the cycle and
\* leaves them empty; the locals change in no other step, so nothing is
\* flushed twice; no step of the writer after the swap touches the staging
\* maps, and a producer call keeps every staged key (and every element
\* of a staged set), whether the writer waits or flushes: what is added during
\* a flush stays staged until the next swap
ThmC30 ==
    [][/\ (pc = "wait" /\ pc' = "names") =>
              /\ symbolNames' = mSymbolNames /\ symbols' = mSymbols
              /\ references' = mReferences /\ dependencies' = mDependencies
              /\ pchDependencies' = mPchDependencies /\ informations' = mInformations
              /\ \A i \in 1..6 : stagingVars'[i] = EmptyMap
       /\ ~(pc = "wait" /\ pc' = "names") => localVars' = localVars
       /\ (Flushing /\ pc' # pc) => stagingVars' = stagingVars
       /\ (calls' = calls + 1) =>
              /\ pc' = pc
              /\ \A i \in 1..6 : DOMAIN stagingVars[i] \subseteq DOMAIN stagingVars'[i]
              /\ SetsKept(mSymbolNames, mSymbolNames')
              /\ SetsKept(mDependencies, mDependencies')
              /\ SetsKept(mPchDependencies, mPchDependencies')
              /\ \A k \in DOMAIN mSymbols : mSymbols[k].references \subseteq mSymbols'[k].references]_vars

\* a delta was added while the writer flushes the deltas of an earlier swap
WitC30 ==
    /\ Flushing /\ AnyStaged
    /\ cycleLog # {} /\ log # {}
    /\ \E i \in 1..6 : localVars[i] # EmptyMap

(***************************************************************************)
(* Properties of the dispatcher                                            *)
(***************************************************************************)
Destroyed == lastOp.op = "onConnectionDestroyed"

\* C3: when a connection is destroyed, every pending-lookup entry whose value
\* is that connection is gone and every other entry is in the table unchanged
ThmC3 ==
    Destroyed =>
        /\ DOMAIN mPendingLookups \subseteq DOMAIN lastOp.before
        /\ \A i \in DOMAIN lastOp.before :
              IF lastOp.before[i] = lastOp.conn
              THEN i \notin DOMAIN mPendingLookups
              ELSE i \in DOMAIN mPendingLookups /\ mPendingLookups[i] = lastOp.before[i]

\* a destruction that found an entry of the connection and an entry of another one
WitC3 ==
    /\ Destroyed
    /\ \E i, j \in DOMAIN lastOp.before :
          lastOp.before[i] = lastOp.conn /\ lastOp.before[j] # lastOp.conn

\* the steps of the job threads, which are no iteration of the event loop
JobSteps == {"JobOutput", "JobExit"}

IdReturned == lastOp.op = "findSymbols" /\ lastOp.job

\* C5 as stated: nextId never returns 0 and returns more than the call before,
\* the calls that wrap the counter included
OrigC5 ==
    IdReturned => mJobId # 0 /\ mJobId > prevJobId

\* C5 (amended): nextId never returns 0; it returns more than the call before
\* unless the counter was at the largest 32-bit value, and then it returns less
ThmC5 ==
    IdReturned =>
        /\ lastOp.id = mJobId /\ mJobId # 0
        /\ prevJobId < IntMax => mJobId > prevJobId
        /\ prevJobId = IntMax => mJobId < prevJobId

\* the call that wraps the counter
WitC5 == IdReturned /\ prevJobId = IntMax /\ mJobId < 0

\* C34: nextId never returns an id that is a key of mPendingLookups for a job
\* that has not finished, so registering a query overwrites no such entry
OrigC34 ==
    [][(lastOp'.op = "findSymbols" /\ lastOp'.job) =>
          ~(/\ lastOp'.id \in DOMAIN mPendingLookups
            /\ lastOp'.id \in DOMAIN jobs /\ ~jobs[lastOp'.id].done)]_vars

\* C14: after an output event with finish set has been handled for a job id
\* that is in the pending-lookup table and finish was sent, the table has no
\* entry for that id
OrigC14 ==
    (lastOp.op = "event" /\ lastOp.finish /\ ~lastOp.aborts) =>
        lastOp.id \notin DOMAIN mPendingLookups

\* C15: when the dispatcher handles an output event whose id is not in the
\* pending-lookup table, or whose connection is not connected, or whose
\* non-empty output the connection fails to write, finish is called on no
\* connection and, if the Job object still exists, its abort flag is set
ThmC15 ==
    [][\A writeOk \in BOOLEAN :
          (events # << >> /\ event(writeOk)) =>
              LET e == Head(events)
              IN (\/ e.id \notin DOMAIN mPendingLookups
                  \/ conns[mPendingLookups[e.id]] # "connected"
                  \/ e.out /\ ~writeOk) =>
                     /\ finished' = finished
                     /\ jobs[e.id].alive => jobs'[e.id].aborted]_vars

\* the write of a finishing event fails on a connection that is connected
WitC15 ==
    /\ lastOp.op = "event" /\ lastOp.finish /\ lastOp.aborts /\ lastOp.wasAlive
    /\ lastOp.id \in DOMAIN mPendingLookups
    /\ conns[mPendingLookups[lastOp.id]] = "connected"
    /\ mPendingLookups[lastOp.id] \notin finished
    /\ jobs[lastOp.id].aborted

\* C17: a Shutdown query writes "Shutting down" to the requesting
\* connection, calls finish on it and asks the event loop to exit; once
\* Server::clear has run no job is queued in the thread pool, and a job that
\* was queued or discarded is discarded, not started
ThmC17 ==
    [][/\ lastOp'.op = "shutdown" =>
             /\ lastOp'.out = "Shutting down" /\ lastOp'.conn \in finished'
             /\ eventLoop' = "exiting"
       /\ eventLoop' = "cleared" =>
             \A id \in DOMAIN jobs :
                 /\ jobs'[id].pool # "queued"
                 /\ jobs[id].pool \in { "queued", "discarded" } =>
                       jobs'[id].pool = "discarded"]_vars

\* the teardown found a job in the backlog while another one was running
WitC17 ==
    /\ lastOp.op = "clear"
    /\ \E i, j \in DOMAIN jobs :
          /\ jobs[i].pool = "discarded"
          /\ jobs[j].pool = "started" /\ jobs[j].alive

(***************************************************************************)
(* Server: makefiles, their parsers and the compile commands they report   *)
(***************************************************************************)
Makefiles == { <<1, 3>> }
MakefileArgLists == { << >> }

\* GccArguments of one compile command: input files, language, and the
\* SourceInformation built from it (clang arguments plus defaults, compiler)
InputFileLists == { << >>, <<"x.c", "y.h">> }
Langs == { "NoLang", "C" }
CommandInfos == { [args |-> <<"-O">>, compiler |-> "gcc"],
                  [args |-> <<"-O">>, compiler |-> "clang"] }
GccInputs == [inputFiles : InputFileLists, lang : Langs, info : CommandInfos]

\* what a project blob in the data directory restores: nothing, or sources
RestoreInputs == { EmptyMap, "x.c" :> [args |-> <<"-O">>, compiler |-> "gcc"] }

\* SourceInformation(sourceFile, args, compiler)
SourceInformation(sourceFile, info) ==
    [sourceFile |-> sourceFile, args |-> info.args, compiler |-> info.compiler]

\* Indexer::sourceInfo(fileId): the stored one, or a default-constructed one
SourceInfo(sources, file) ==
    IF file \in DOMAIN sources THEN SourceInformation(file, sources[file])
    ELSE [sourceFile |-> NoPath, args |-> << >>, compiler |-> NoPath]

\* (mutant) the compiler is left out of the comparison
DiffersButForCompiler(existing, c) ==
    existing.sourceFile # c.sourceFile \/ existing.args # c.args

\* existing != c
SourceInformationDiffers(existing, c) == existing # c

\* Server::make: a MakefileParser is started for the makefile
Make(R, path, info, conn) ==
    [R EXCEPT !.parsers = @ \cup { [makefile |-> path, info |-> info, conn |-> conn,
                                     stopped |-> FALSE] }]

\* processSourceFile returned before the loop over the input files
Unprocessed(R, proj, ret) ==
    [reg |-> R, ret |-> ret, processed |-> FALSE, scheduled |-> {},
     before |-> IF proj \in DOMAIN R.mProjects THEN R.mProjects[proj].sources ELSE EmptyMap]

\* (mutant) the source root is looked up for a valid project, too
NeedsInitAlways(project) == TRUE

\* !project->isValid()
NeedsInit(project) == ~project.valid

\* Server::processSourceFile; root is what findProjectRoot finds, resolved what
\* Project::init resolves it to, restored what the project's blob holds
ProcessSourceFile(R, args, proj, root, resolved, restored) ==
    IF args.inputFiles = << >> THEN Unprocessed(R, proj, TRUE)
    ELSE IF args.lang = "NoLang" THEN Unprocessed(R, proj, TRUE)
    ELSE IF proj \notin DOMAIN R.mProjects THEN Unprocessed(R, proj, FALSE)
    ELSE LET project == R.mProjects[proj]
         IN IF NeedsInit(project) /\ root = NoPath THEN Unprocessed(R, proj, FALSE)
            ELSE LET p1 == IF NeedsInit(project)
                           THEN [ProjectInit(project, root, resolved)
                                    EXCEPT !.sources = restored]
                           ELSE project
                     files == Range(args.inputFiles)
                     scheduled == { f \in files :
                                      SourceInformationDiffers(SourceInfo(p1.sources, f),
                                                               SourceInformation(f, args.info)) }
                     p2 == [p1 EXCEPT !.sources =
                               [f \in DOMAIN p1.sources \cup scheduled |->
                                   IF f \in scheduled THEN args.info ELSE p1.sources[f]]]
                     R1 == SetCurrentProject([R EXCEPT !.mProjects[proj] = p1], p1.inst)
                 IN [reg |-> [R1 EXCEPT !.mProjects[proj] = p2], ret |-> TRUE,
                     processed |-> TRUE, scheduled |-> scheduled, before |-> p1.sources]

\* Server::handleProjectMessage, MakefileType
handleProjectMessageMakefile(c, makefile, args, automake) ==
    /\ CanReceive(c)
    /\ makefile \in DOMAIN mProjects \/ CanCreate(Reg)
    /\ LET R1 == WriteProjects([Reg EXCEPT !.mMakefiles = MapPut(@, makefile, args)])
           R2 == IF makefile \in DOMAIN mProjects THEN R1
                 ELSE [R1 EXCEPT !.insts = @ + 1,
                                 !.mProjects = MapPut(@, makefile,
                                                      NewProject(R1.insts + 1, "INDEXER"))]
       IN IF R2.mProjects[makefile].valid \/ automake
          THEN SetReg(Make(R2, makefile, args, c)) /\ finished' = finished \ {c}
          ELSE SetReg(R2) /\ finished' = finished \cup {c}
    /\ lastOp' = [op |-> "makefile"]
    /\ UNCHANGED << conns, mPendingLookups, mJobId, jobs, events, prevJobId, purgedJobs >>

\* processSourceFile gets as far as findProjectRoot
FindsRoot(R, args, proj) ==
    /\ args.inputFiles # << >> /\ args.lang # "NoLang"
    /\ proj \in DOMAIN R.mProjects /\ NeedsInit(R.mProjects[proj])

\* Server::onFileReady: a running parser reports one compile command
onFileReady(parser, args, root, resolved, restored) ==
    /\ parser \in parsers /\ ~parser.stopped
    /\ FindsRoot(Reg, args, parser.makefile) \/ (root = NoPath /\ restored = EmptyMap)
    /\ LET r == ProcessSourceFile(Reg, args, parser.makefile, root, resolved, restored)
       IN /\ SetReg(IF r.ret THEN r.reg
                    ELSE [r.reg EXCEPT !.parsers = (@ \ {parser})
                                          \cup {[parser EXCEPT !.stopped = TRUE]}])
          /\ lastOp' = [op |-> "onFileReady", files |-> Range(args.inputFiles),
                        info |-> args.info, processed |-> r.processed,
                        scheduled |-> r.scheduled, before |-> r.before,
                        makefile |-> parser.makefile,
                        init |-> FindsRoot(Reg, args, parser.makefile),
                        current |-> Lock(Reg)]
    /\ UNCHANGED dispVars

\* Server::onMakefileParserDone, and the MakefileParserDoneEvent that deletes the parser
onMakefileParserDone(parser) ==
    /\ parser \in parsers
    /\ parsers' = parsers \ {parser}
    /\ finished' = IF parser.conn # 0 THEN finished \cup {parser.conn} ELSE finished
    /\ lastOp' = [op |-> "onMakefileParserDone"]
    /\ UNCHANGED << conns, mPendingLookups, mJobId, jobs, events, prevJobId, purgedJobs,
                    mProjects, mCurrentProject, mMakefiles, mGRTagsDirs, mSmartProjects,
                    hasUpdatedProject, watched, projectsFile, insts, dataDir >>

\* Server::onMakefileModified: the watcher reports a change of a makefile
onMakefileModified(path) ==
    /\ path \in watched
    /\ SetReg(IF path \in DOMAIN mProjects /\ HasIndexer(mProjects[path])
              THEN Remake(Reg, path) ELSE Reg)
    /\ lastOp' = [op |-> "onMakefileModified", path |-> path,
                  valid |-> path \in DOMAIN mProjects /\ mProjects[path].valid,
                  made |-> IF path \in DOMAIN mProjects /\ HasIndexer(mProjects[path])
                           THEN RemakeCalls(Reg, path) ELSE << >>]
    /\ UNCHANGED dispVars

(***************************************************************************)
(* Server: source-root discovery (findAncestor, findProjectRoot)           *)
(***************************************************************************)
\* here a path is a sequence of tokens, "/" the separator; a glob is a
\* sequence of tokens with "*" the wildcard

\* entries[] of findProjectRoot, in its order
Entries ==
    << [name |-> << "GTAGS" >>, wildcard |-> FALSE],
       [name |-> << "configure" >>, wildcard |-> FALSE],
       [name |-> << ".git" >>, wildcard |-> FALSE],
       [name |-> << "CMakeLists.txt" >>, wildcard |-> FALSE],
       [name |-> << "*", ".pro" >>, wildcard |-> TRUE],
       [name |-> << "scons.1" >>, wildcard |-> FALSE],
       [name |-> << "*", ".scons" >>, wildcard |-> TRUE],
       [name |-> << "SConstruct" >>, wildcard |-> FALSE],
       [name |-> << "autogen.", "*" >>, wildcard |-> TRUE],
       [name |-> << "Makefile", "*" >>, wildcard |-> TRUE],
       [name |-> << "GNUMakefile", "*" >>, wildcard |-> TRUE],
       [name |-> << "INSTALL", "*" >>, wildcard |-> TRUE],
       [name |-> << "README", "*" >>, wildcard |-> TRUE] >>

\* fnmatch(pattern, string, 0) == 0: the whole string has to match, and "*"
\* matches any run of characters, "/" included
RECURSIVE Fnmatch(_, _)
Fnmatch(pattern, string) ==
    IF pattern = << >> THEN string = << >>
    ELSE IF Head(pattern) = "*"
    THEN \E k \in 0..Len(string) : Fnmatch(Tail(pattern), SubSeq(string, k + 1, Len(string)))
    ELSE /\ string # << >>
         /\ Head(string) = Head(pattern)
         /\ Fnmatch(Tail(pattern), Tail(string))

\* the values slash takes in the loop of findAncestor, from i down:
\* path.lastIndexOf('/', slash - 1) > 0, so the leading "/" is not one of them
RECURSIVE Slashes(_, _)
Slashes(path, i) ==
    IF i <= 1 THEN << >>
    ELSE (IF path[i] = "/" THEN << i >> ELSE << >>) \o Slashes(path, i - 1)

\* the entries of a directory of the file system
DirEntries(fs, dir) == IF dir \in DOMAIN fs THEN fs[dir] ELSE {}

\* one round of the loop of findAncestor: stat(buf) of the directory plus fn,
\* or a scan of the directory with fnmatch(fn, buf, 0), buf being the
\* directory plus the name of the entry
AncestorHit(fs, dir, fn, wildcard) ==
    IF wildcard THEN \E entry \in DirEntries(fs, dir) : Fnmatch(fn, dir \o entry)
    ELSE fn \in DirEntries(fs, dir)

\* the loop of findAncestor without Shallow: every hit overwrites ret
RECURSIVE FindAncestorLoop(_, _, _, _, _, _)
FindAncestorLoop(fs, path, fn, wildcard, slashes, ret) ==
    IF slashes = << >> THEN ret
    ELSE LET dir == SubSeq(path, 1, Head(slashes))
         IN FindAncestorLoop(fs, path, fn, wildcard, Tail(slashes),
                             IF AncestorHit(fs, dir, fn, wildcard) THEN dir ELSE ret)

\* findAncestor(path, fn, flags), flags being 0 or Wildcard
FindAncestor(fs, path, fn, wildcard) ==
    FindAncestorLoop(fs, path, fn, wildcard, Slashes(path, Len(path)), NoPath)

\* (mutant) the home directory is returned like any other
NotEmpty(p, home) == p # NoPath

\* !p.isEmpty() && p != home
NotEmptyNotHome(p, home) == p # NoPath /\ p # home

\* the loop of findProjectRoot over entries[], from entry i
RECURSIVE EntriesLoop(_, _, _, _)
EntriesLoop(fs, home, path, i) ==
    IF i > Len(Entries) THEN NoPath
    ELSE LET p == FindAncestor(fs, path, Entries[i].name, Entries[i].wildcard)
         IN IF NotEmptyNotHome(p, home) THEN p ELSE EntriesLoop(fs, home, path, i + 1)

\* the loop over the lines of config.status; lines holds, for the lines with
\* a configure token among the first ten, the directory the prefix resolves to
RECURSIVE ConfigStatusLoop(_, _)
ConfigStatusLoop(lines, home) ==
    IF lines = << >> THEN NoPath
    ELSE IF Head(lines) # home THEN Head(lines)
    ELSE ConfigStatusLoop(Tail(lines), home)

\* findProjectRoot(path)
FindProjectRoot(fs, lines, home, path) ==
    LET p == EntriesLoop(fs, home, path, 1)
        configStatus == FindAncestor(fs, path, << "config.status" >>, FALSE)
    IN IF p # NoPath THEN p
       ELSE IF configStatus # NoPath THEN ConfigStatusLoop(lines, home)
       ELSE NoPath

\* lines 873-875 of processSourceFile: the unresolved input file first, then
\* the resolved one
SrcRoot(fs, lines, home, unresolved, resolved) ==
    LET srcRoot == FindProjectRoot(fs, lines, home, unresolved)
    IN IF srcRoot # NoPath THEN srcRoot ELSE FindProjectRoot(fs, lines, home, resolved)

\* Server::onFileReady for a project that is not valid yet, findProjectRoot
\* run on the file system fs with Path::home() being home
onFileReadyIn(parser, args, fs, lines, home, unresolved, resolved) ==
    /\ parser \in parsers /\ ~parser.stopped
    /\ FindsRoot(Reg, args, parser.makefile)
    /\ LET root == SrcRoot(fs, lines, home, unresolved, resolved)
           r == ProcessSourceFile(Reg, args, parser.makefile, root, root, EmptyMap)
       IN /\ SetReg(IF r.ret THEN r.reg
                    ELSE [r.reg EXCEPT !.parsers = (@ \ {parser})
                                          \cup {[parser EXCEPT !.stopped = TRUE]}])
          /\ lastOp' = [op |-> "findProjectRoot", fs |-> fs, lines |-> lines, home |-> home,
                        unresolved |-> unresolved, resolved |-> resolved,
                        found |-> FindProjectRoot(fs, lines, home, unresolved),
                        root |-> root, makefile |-> parser.makefile,
                        processed |-> r.processed]
    /\ UNCHANGED dispVars

(***************************************************************************)
(* Server: removing, unloading, selecting and reloading projects           *)
(***************************************************************************)
\* Map::remove of a key
MapRemove(m, k) == [x \in DOMAIN m \ {k} |-> m[x]]

\* the handler took the last project out of the registry
Emptied(R, R1) == ~IsEmptyMap(R.mProjects) /\ IsEmptyMap(R1.mProjects)

\* Server::removeProject(const Path &)
RemoveProject(R, path) ==
    IF path \notin DOMAIN R.mProjects THEN R
    ELSE LET write == \/ path \in DOMAIN R.mMakefiles
                      \/ path \in R.mGRTagsDirs
                      \/ path \in DOMAIN R.mSmartProjects
             R1 == [R EXCEPT !.mMakefiles = MapRemove(@, path),
                             !.mGRTagsDirs = @ \ {path},
                             !.mSmartProjects = MapRemove(@, path)]
             R2 == IF write THEN WriteProjects(R1) ELSE R1
             R3 == [R2 EXCEPT !.mProjects = MapRemove(@, path)]
         IN IF Lock(R3) = 0 /\ ~IsEmptyMap(R3.mProjects)
            THEN SetCurrentProject(R3, R3.mProjects[SortedPaths(DOMAIN R3.mProjects)[1]].inst)
            ELSE R3

\* (mutant) unloading takes the project out of the map
UnloadProjectErases(R, path) ==
    [R EXCEPT !.mProjects = [x \in DOMAIN @ \ {path} |-> @[x]]]

\* Server::unloadProject(const Path &)
UnloadProject(R, path) ==
    IF path \notin DOMAIN R.mProjects THEN R
    ELSE LET R1 == IF Lock(R) = R.mProjects[path].inst
                   THEN [R EXCEPT !.mCurrentProject = 0] ELSE R
         IN [R1 EXCEPT !.mProjects[path] = ProjectUnload(@)]

RECURSIVE RemoveLoop(_, _, _)
RemoveLoop(R, paths, unload) ==
    IF paths = << >> THEN R
    ELSE RemoveLoop(IF unload THEN UnloadProject(R, Head(paths))
                    ELSE RemoveProject([R EXCEPT !.dataDir = MapRemove(@, Head(paths))],
                                       Head(paths)),
                    Tail(paths), unload)

\* Server::removeProject(const QueryMessage &, Connection *): DeleteProject
\* and UnloadProject queries
removeProject(c, pattern, unload) ==
    /\ CanReceive(c)
    /\ LET remove == { k \in DOMAIN mProjects : RegExpIndexIn(pattern, k) }
           R1 == RemoveLoop(Reg, SortedPaths(remove), unload)
       IN /\ SetReg(R1)
          /\ lastOp' = IF unload
                        THEN [op |-> "unloadProject", keys |-> remove, conn |-> c,
                              before |-> DOMAIN mProjects,
                              valid |-> { k \in remove : mProjects[k].valid }]
                        ELSE [op |-> "removeProject", conn |-> c,
                              emptied |-> Emptied(Reg, R1)]
    /\ finished' = finished \cup {c}
    /\ UNCHANGED << conns, mPendingLookups, mJobId, jobs, events, prevJobId, purgedJobs >>

\* Server::clearProjects
clearProjects(c) ==
    /\ CanReceive(c)
    /\ SetReg(WriteProjects([Reg EXCEPT !.mProjects = EmptyMap, !.dataDir = EmptyMap]))
    /\ lastOp' = [op |-> "clearProjects", conn |-> c,
                  emptied |-> ~IsEmptyMap(mProjects)]
    /\ finished' = finished \cup {c}
    /\ UNCHANGED << conns, mPendingLookups, mJobId, jobs, events, prevJobId, purgedJobs >>

\* the inner loop of Server::project over key, srcRoot and resolvedSrcRoot of one project
SelectStep(p, key, rx, st) ==
    LET hits == { i \in 1..3 : LET path == <<key, p.srcRoot, p.resolvedSrcRoot>>[i]
                               IN path # NoPath /\ RegExpIndexIn(rx, path) }
    IN IF hits = {} \/ st.error THEN st
       ELSE IF st.selected # 0 THEN [selected |-> 0, error |-> TRUE]
       ELSE [selected |-> p.inst, error |-> FALSE]

RECURSIVE SelectLoop(_, _, _, _)
SelectLoop(R, keys, rx, st) ==
    IF keys = << >> THEN st
    ELSE SelectLoop(R, Tail(keys), rx, SelectStep(R.mProjects[Head(keys)], Head(keys), rx, st))

\* Server::project with a non-empty query, called unless the connection has
\* updated the project before; exists is Path::exists() of the query
project(c, query, exists) ==
    /\ CanReceive(c) /\ c \notin hasUpdatedProject
    /\ LET u == UpdateProjectForLocation(Reg, query)
           st == SelectLoop(Reg, SortedPaths(DOMAIN mProjects), query,
                            [selected |-> 0, error |-> FALSE])
       IN IF exists /\ u.ret THEN SetReg(u.reg)
          ELSE IF st.selected # 0 /\ st.selected # Lock(Reg)
          THEN SetReg([SetCurrentProject(Reg, st.selected)
                          EXCEPT !.hasUpdatedProject = @ \cup {c}])
          ELSE SetReg(Reg)
    /\ lastOp' = [op |-> "project", conn |-> c]
    /\ finished' = finished \cup {c}
    /\ UNCHANGED << conns, mPendingLookups, mJobId, jobs, events, prevJobId, purgedJobs >>

\* Server::handleQueryMessage, QueryMessage::Project on a connection whose
\* hasUpdatedProject flag is set (lines 354-357): project() is not called
handleQueryMessage(c) ==
    /\ CanReceive(c) /\ c \in hasUpdatedProject
    /\ finished' = finished \ {c}
    /\ lastOp' = [op |-> "handleQueryMessage", conn |-> c]
    /\ UNCHANGED << conns, mPendingLookups, mJobId, jobs, events, prevJobId, purgedJobs,
                    regVars >>

\* the compile command Server::smartProject builds for the sources it finds
SmartArguments(found) ==
    [inputFiles |-> found, lang |-> "CPlusPlus",
     info |-> [args |-> <<"-I">>, compiler |-> NoPath]]

\* Server::smartProject; isDir is Path::type() of the path, found the sources
\* the visit of the directory collects
SmartProject(R, path, isDir, found) ==
    IF path \in DOMAIN R.mProjects \/ ~isDir THEN [reg |-> R, ret |-> FALSE]
    ELSE LET inst == R.insts + 1
             R1 == [R EXCEPT !.insts = inst,
                             !.mProjects = MapPut(@, path,
                                 ProjectInit(NewProject(inst, "INDEXER"), path, path))]
             r == ProcessSourceFile(R1, SmartArguments(found), path, NoPath, NoPath, EmptyMap)
         IN [reg |-> WriteProjects([r.reg EXCEPT !.mSmartProjects = MapPut(@, path, << >>)]),
             ret |-> TRUE]

\* Server::handleProjectMessage, SmartType
handleProjectMessageSmart(c, path, isDir, found) ==
    /\ CanReceive(c) /\ CanCreate(Reg)
    /\ SetReg(SmartProject(Reg, path, isDir, found).reg)
    /\ lastOp' = [op |-> "smartProject"]
    /\ finished' = finished \cup {c}
    /\ UNCHANGED << conns, mPendingLookups, mJobId, jobs, events, prevJobId, purgedJobs >>

\* a value of the Makefiles group that is not a MakefileInformation
Unparseable == << "?" >>

\* MakefileInformation::fromString sets *ok
FromStringOk(value) == value # Unparseable

\* reloadProjects, the Makefiles group: st is the registry and the set previous;
\* the function returns at the first value that does not parse
RECURSIVE ReloadMakefiles(_, _, _)
ReloadMakefiles(st, makefiles, file) ==
    IF makefiles = << >> THEN st
    ELSE IF ~FromStringOk(file.Makefiles[Head(makefiles)]) THEN [st EXCEPT !.returned = TRUE]
    ELSE LET path == Head(makefiles)
             R1 == [st.reg EXCEPT !.mMakefiles = MapPut(@, path, file.Makefiles[path]),
                                  !.watched = @ \cup {path}]
             R2 == IF path \in st.previous THEN R1
                   ELSE [R1 EXCEPT !.insts = @ + 1,
                                   !.mProjects = MapPut(@, path,
                                                        NewProject(R1.insts + 1, "INDEXER"))]
         IN ReloadMakefiles([reg |-> R2, previous |-> st.previous \ {path},
                             returned |-> FALSE],
                            Tail(makefiles), file)

\* reloadProjects, the GRTags group
RECURSIVE ReloadGRTags(_, _)
ReloadGRTags(st, grtags) ==
    IF grtags = << >> THEN st
    ELSE LET dir == Head(grtags)
         IN ReloadGRTags(IF dir \in st.previous
                         THEN [st EXCEPT !.previous = @ \ {dir}]
                         ELSE [st EXCEPT !.reg = Grtag(@, dir).reg],
                         Tail(grtags))

\* reloadProjects, the SmartProjects group: mProjects.remove(path) takes a
\* registered project out of the map, and only an unregistered one is created
RECURSIVE ReloadSmartProjects(_, _, _, _)
ReloadSmartProjects(st, smartProjects, isDir, found) ==
    IF smartProjects = << >> THEN st
    ELSE LET path == Head(smartProjects)
         IN ReloadSmartProjects(
                IF path \in DOMAIN st.reg.mProjects
                THEN [st EXCEPT !.reg.mProjects = MapRemove(@, path)]
                ELSE [st EXCEPT !.reg = SmartProject(@, path, isDir, found).reg],
                Tail(smartProjects), isDir, found)

RECURSIVE ReloadRemove(_, _)
ReloadRemove(R, paths) ==
    IF paths = << >> THEN R ELSE ReloadRemove(RemoveProject(R, Head(paths)), Tail(paths))

\* Server::reloadProjects()
ReloadProjects(R, isDir, found) ==
    LET file == R.projectsFile
        st0 == [reg |-> [R EXCEPT !.watched = {}, !.mMakefiles = EmptyMap],
                previous |-> DOMAIN R.mProjects, returned |-> FALSE]
        st1 == ReloadMakefiles(st0, SortedPaths(DOMAIN file.Makefiles), file)
        st2 == ReloadGRTags([st1 EXCEPT !.reg.mGRTagsDirs = {}], SortedPaths(file.GRTags))
        st3 == ReloadSmartProjects([st2 EXCEPT !.reg.mSmartProjects = EmptyMap],
                                   SortedPaths(DOMAIN file.SmartProjects), isDir, found)
    IN IF st1.returned THEN st1.reg ELSE ReloadRemove(st3.reg, SortedPaths(st3.previous))

\* Server::reloadProjects(const QueryMessage &, Connection *)
reloadProjects(c, isDir, found) ==
    /\ CanReceive(c)
    /\ LET R1 == ReloadProjects(Reg, isDir, found)
       IN /\ R1.insts <= MaxInsts /\ SetReg(R1)
          /\ lastOp' = [op |-> "reloadProjects", conn |-> c, emptied |-> Emptied(Reg, R1)]
    /\ finished' = finished \cup {c}
    /\ UNCHANGED << conns, mPendingLookups, mJobId, jobs, events, prevJobId, purgedJobs >>

\* the projects file is edited outside the daemon: the value of a makefile
\* entry becomes one that does not parse
projectsFileEdited(path) ==
    /\ path \in DOMAIN projectsFile.Makefiles
    /\ FromStringOk(projectsFile.Makefiles[path])
    /\ SetReg([Reg EXCEPT !.projectsFile.Makefiles[path] = Unparseable])
    /\ lastOp' = [op |-> "projectsFileEdited"]
    /\ UNCHANGED dispVars

\* the Makefiles group of the projects file has a value that does not parse
Refused(file) == \E path \in DOMAIN file.Makefiles : ~FromStringOk(file.Makefiles[path])

\* the connection the registry's messages arrive on, the directories of smart
\* projects, the queries of a project selection
RegistryConns == {1}
SmartDirs == { <<2>> }
Selections == QueryPaths \cup Patterns

DispNext ==
    \/ \E c \in Conns :
          Running /\ onNewConnection(c) /\ UNCHANGED << syncVars, saveVars, loopVars >>
    \/ \E c \in Conns : ClientDisconnects(c) /\ UNCHANGED << syncVars, saveVars, loopVars >>
    \/ \E c \in Conns :
          Running /\ onConnectionDestroyed(c) /\ UNCHANGED << syncVars, saveVars, loopVars >>
    \/ \E c \in Conns, k \in DispatchKeys :
          Running /\ handleProjectMessageGRTags(c, k)
                  /\ UNCHANGED << syncVars, saveVars, loopVars >>
    \/ \E c \in Conns :
          Running /\ findSymbols(c) /\ UNCHANGED << syncVars, saveVars, loopVars >>
    \/ \E id \in DOMAIN jobs :
          PoolRuns /\ ThreadPoolRun(id) /\ UNCHANGED << syncVars, saveVars, loopVars >>
    \/ \E id \in DOMAIN jobs, out \in BOOLEAN, finish \in BOOLEAN :
          PoolRuns /\ JobOutput(id, out, finish)
                   /\ UNCHANGED << syncVars, saveVars, loopVars >>
    \/ \E id \in DOMAIN jobs :
          PoolRuns /\ JobExit(id) /\ UNCHANGED << syncVars, saveVars, loopVars >>
    \/ \E writeOk \in BOOLEAN :
          Running /\ event(writeOk) /\ UNCHANGED << syncVars, saveVars, loopVars >>
    \/ \E c \in Conns : Running /\ shutdown(c) /\ UNCHANGED << syncVars, saveVars, bootVars >>
    \/ clear /\ UNCHANGED << syncVars, saveVars, bootVars >>

\* connections, query jobs and their output events, shutdown
SpecDispatch == Init /\ [][DispNext]_vars

\* mJobId of a daemon that has handed out the ids from 2 up to the largest int
\* and on from the smallest since the query of job 1
WrappedJobIds == { -2, -1 }

\* a daemon whose first query job (id 1, on the GRTags project <<1>>, asked on
\* connection 1) is still in the thread pool while the counter has wrapped;
\* the connections of the queries in between are gone
WrapInit ==
    /\ SyncInit
    /\ conns = [c \in Conns |-> IF c = 1 THEN "connected" ELSE "none"] /\ finished = {}
    /\ mPendingLookups = (1 :> 1)
    /\ mJobId \in WrappedJobIds /\ prevJobId = mJobId - 1
    /\ mProjects = (<<1>> :> ProjectInit(NewProject(1, "GRTAGS"), <<1>>, <<1>>))
    /\ mCurrentProject = 1 /\ insts = 1
    /\ mMakefiles = EmptyMap /\ mGRTagsDirs = { <<1>> } /\ mSmartProjects = EmptyMap
    /\ watched = {} /\ hasUpdatedProject = {}
    /\ projectsFile = [Makefiles |-> EmptyMap, GRTags |-> { <<1>> },
                       SmartProjects |-> EmptyMap]
    /\ parsers = {} /\ dataDir = EmptyMap
    /\ mSaveTimers = EmptyMap /\ timers = EmptyMap
    /\ savePc = "idle" /\ saving = 0 /\ stream = [name |-> NoPath, out |-> << >>] /\ savedIds = EmptyMap
    /\ jobs = (1 :> [aborted |-> FALSE, alive |-> TRUE, project |-> 1, emitted |-> 0,
                     done |-> FALSE, pool |-> "queued"])
    /\ events = << >> /\ purgedJobs = {}
    /\ eventLoop = "running"
    /\ initPc = "running" /\ initLog = << "listen ok" >> /\ pathsToIds = EmptyMap
    /\ lastOp = [op |-> "init"]

\* the dispatcher after the counter has wrapped
SpecWrap == WrapInit /\ [][DispNext]_vars

RemovalNext ==
    \/ \E c \in RegistryConns :
          onNewConnection(c) /\ UNCHANGED << syncVars, saveVars, loopVars >>
    \/ \E c \in RegistryConns, k \in DispatchKeys :
          handleProjectMessageGRTags(c, k) /\ UNCHANGED << syncVars, saveVars, loopVars >>
    \/ \E c \in RegistryConns :
          findSymbols(c) /\ UNCHANGED << syncVars, saveVars, loopVars >>
    \/ \E id \in DOMAIN jobs :
          ThreadPoolRun(id) /\ UNCHANGED << syncVars, saveVars, loopVars >>
    \/ \E id \in DOMAIN jobs, out \in BOOLEAN, finish \in BOOLEAN :
          JobOutput(id, out, finish) /\ UNCHANGED << syncVars, saveVars, loopVars >>
    \/ \E id \in DOMAIN jobs : JobExit(id) /\ UNCHANGED << syncVars, saveVars, loopVars >>
    \/ \E writeOk \in BOOLEAN :
          event(writeOk) /\ UNCHANGED << syncVars, saveVars, loopVars >>
    \/ \E c \in RegistryConns, pattern \in Patterns :
          removeProject(c, pattern, FALSE) /\ UNCHANGED << syncVars, saveVars, loopVars >>
    \/ \E c \in RegistryConns :
          clearProjects(c) /\ UNCHANGED << syncVars, saveVars, loopVars >>

\* projects are removed while query jobs that hold them are queued or running
SpecRemoval == FreshInit /\ [][RemovalNext]_vars

RegNext ==
    \/ \E c \in RegistryConns : onNewConnection(c) /\ ParsersBounded(MaxParsers) /\ UNCHANGED << syncVars, saveVars, loopVars >>
    \/ \E c \in RegistryConns, k \in Keys :
          handleProjectMessageGRTags(c, k) /\ ParsersBounded(MaxParsers) /\ UNCHANGED << syncVars, saveVars, loopVars >>
    \/ \E c \in RegistryConns, m \in Makefiles, a \in MakefileArgLists, automake \in BOOLEAN :
          handleProjectMessageMakefile(c, m, a, automake) /\ ParsersBounded(MaxParsers) /\ UNCHANGED << syncVars, saveVars, loopVars >>
    \/ \E c \in RegistryConns, d \in SmartDirs, isDir \in BOOLEAN, found \in InputFileLists :
          handleProjectMessageSmart(c, d, isDir, found) /\ ParsersBounded(MaxParsers) /\ UNCHANGED << syncVars, saveVars, loopVars >>
    \/ \E parser \in parsers, args \in GccInputs, root \in Roots \cup {NoPath},
          restored \in RestoreInputs :
          \E resolved \in ResolvedOf(root) :
              onFileReady(parser, args, root, resolved, restored) /\ ParsersBounded(MaxParsers) /\ UNCHANGED << syncVars, saveVars, loopVars >>
    \/ \E parser \in parsers : onMakefileParserDone(parser) /\ ParsersBounded(MaxParsers) /\ UNCHANGED << syncVars, saveVars, loopVars >>
    \/ \E path \in Makefiles : onMakefileModified(path) /\ ParsersBounded(MaxParsers) /\ UNCHANGED << syncVars, saveVars, loopVars >>
    \/ \E c \in RegistryConns, path \in QueryPaths :
          hasFileManager(c, path) /\ ParsersBounded(MaxParsers) /\ UNCHANGED << syncVars, saveVars, loopVars >>
    \/ \E c \in RegistryConns, q \in Selections, exists \in BOOLEAN :
          project(c, q, exists) /\ ParsersBounded(MaxParsers) /\ UNCHANGED << syncVars, saveVars, loopVars >>
    \/ \E c \in RegistryConns : handleQueryMessage(c) /\ ParsersBounded(MaxParsers) /\ UNCHANGED << syncVars, saveVars, loopVars >>
    \/ \E c \in RegistryConns, pattern \in Patterns, unload \in BOOLEAN :
          removeProject(c, pattern, unload) /\ ParsersBounded(MaxParsers) /\ UNCHANGED << syncVars, saveVars, loopVars >>
    \/ \E c \in RegistryConns : clearProjects(c) /\ ParsersBounded(MaxParsers) /\ UNCHANGED << syncVars, saveVars, loopVars >>
    \/ \E c \in RegistryConns, isDir \in BOOLEAN, found \in InputFileLists :
          reloadProjects(c, isDir, found) /\ ParsersBounded(MaxParsers) /\ UNCHANGED << syncVars, saveVars, loopVars >>

\* the project registry under project messages, parser reports, watcher
\* events, selections, removals and reloads
SpecRegistry == FreshInit /\ [][RegNext]_vars

(***************************************************************************)
(* Server: the save timers and Server::save                                *)
(***************************************************************************)
\* the ids EventLoop::addTimer hands out; an id is free again once its timer is removed
TimerIds == { 1, 2 }
\* the count of jobsComplete
Counts == { 0, 1 }
\* the file "fileids" of the data directory, a name no encoded project path has
FileIds == << 0 >>
\* FILE *: no file is open
NoStream == [name |-> NoPath, out |-> << >>]

\* the schema version of this build, and the one of an earlier build
DatabaseVersion == "DatabaseVersion"
StaleVersion == "StaleVersion"

\* Serializer << Map<Path, uint32_t>: the size, then the entries in key order,
\* a key as its length and its characters, then the id
RECURSIVE SerializeEntries(_, _)
SerializeEntries(m, keys) ==
    IF keys = << >> THEN << >>
    ELSE << Len(keys[1]) >> \o keys[1] \o << m[keys[1]] >> \o SerializeEntries(m, Tail(keys))

Serialize(m) == << Cardinality(DOMAIN m) >> \o SerializeEntries(m, SortedPaths(DOMAIN m))

\* Deserializer >> Map<Path, uint32_t>: a read past the end of the file reads nothing
RECURSIVE DeserializeEntries(_, _, _)
DeserializeEntries(bytes, n, m) ==
    IF n = 0 \/ bytes = << >> THEN m
    ELSE LET len == bytes[1]
         IN IF Len(bytes) < len + 2 THEN m
            ELSE DeserializeEntries(SubSeq(bytes, len + 3, Len(bytes)), n - 1,
                                    MapPut(m, SubSeq(bytes, 2, len + 1), bytes[len + 2]))

Deserialize(bytes) ==
    IF bytes = << >> THEN EmptyMap ELSE DeserializeEntries(Tail(bytes), bytes[1], EmptyMap)

\* Location::pathsToIds()
Location_pathsToIds == pathsToIds

\* the Indexer objects whose signals are connected: one per project created
\* with an indexer, named by the Project object that owns it
Indexers == 1..insts

\* EventLoop::removeTimer
RemoveTimer(ts, id) == MapRemove(ts, id)

\* (mutant) the entry is taken from mSaveTimers, the timer is left in the event loop
TakeTimerOnly(indexer) ==
    [mSaveTimers |-> MapRemove(mSaveTimers, indexer),
     timers |-> timers,
     armed |-> indexer \in DOMAIN mSaveTimers /\ mSaveTimers[indexer] \in DOMAIN timers]

\* lines 1322-1325, 1345-1348: mSaveTimers.take(indexer, &ok) and removeTimer
TakeTimer(indexer) ==
    LET ok == indexer \in DOMAIN mSaveTimers
        id == MapGet(mSaveTimers, indexer, -1)
    IN [mSaveTimers |-> MapRemove(mSaveTimers, indexer),
        timers |-> IF ok /\ id # -1 THEN RemoveTimer(timers, id) ELSE timers,
        armed |-> ok /\ id \in DOMAIN timers /\ timers[id] = indexer]

\* the event loop runs one handler at a time
Idle == savePc = "idle"

\* (mutant) the timer is added whatever the count
ArmsAlways(count) == TRUE

\* if (count)
Arms(count) == count # 0

\* Server::onJobsComplete
onJobsComplete(indexer, count) ==
    /\ Idle /\ indexer \in Indexers
    /\ LET t == TakeTimer(indexer)
       IN IF Arms(count)
          THEN \E id \in TimerIds \ DOMAIN t.timers :
                  /\ timers' = MapPut(t.timers, id, indexer)
                  /\ mSaveTimers' = MapPut(t.mSaveTimers, indexer, id)
          ELSE timers' = t.timers /\ mSaveTimers' = t.mSaveTimers
    /\ lastOp' = [op |-> "onJobsComplete", indexer |-> indexer, count |-> count,
                  armed |-> TakeTimer(indexer).armed]
    /\ UNCHANGED << dispVars, regVars, savePc, saving, stream, savedIds >>

\* Server::onJobStarted
onJobStarted(indexer) ==
    /\ Idle /\ indexer \in Indexers
    /\ LET t == TakeTimer(indexer)
       IN /\ timers' = t.timers /\ mSaveTimers' = t.mSaveTimers
          /\ lastOp' = [op |-> "onJobStarted", indexer |-> indexer, armed |-> t.armed]
    /\ UNCHANGED << dispVars, regVars, savePc, saving, stream, savedIds >>

\* Server::save returns
SaveReturns ==
    /\ savePc' = "idle" /\ saving' = 0 /\ stream' = NoStream

\* fclose: what the stream holds reaches the file
Fclose(out) == dataDir' = MapPut(dataDir, stream.name, out)

\* Server::saveTimerCallback up to the mkdir of Server::save (lines 1333-1337,
\* 1274-1277); mkdirOk is what Path::mkdir returns
saveTimerCallback(id, mkdirOk) ==
    /\ Idle /\ id \in DOMAIN timers
    /\ timers' = RemoveTimer(timers, id)
    /\ IF mkdirOk THEN savePc' = "fileids" /\ saving' = timers[id] /\ stream' = NoStream
       ELSE SaveReturns
    /\ lastOp' = [op |-> "saveTimerCallback", indexer |-> timers[id]]
    /\ UNCHANGED << dispVars, regVars, mSaveTimers, savedIds >>

\* lines 1279-1284: fopen(p, "w") creates or truncates fileids
SaveOpenFileIds(openOk) ==
    /\ savePc = "fileids"
    /\ IF openOk
       THEN /\ dataDir' = MapPut(dataDir, FileIds, << >>)
            /\ stream' = [name |-> FileIds, out |-> << >>]
            /\ savePc' = "pathsToIds" /\ UNCHANGED saving
       ELSE SaveReturns /\ UNCHANGED dataDir
    /\ lastOp' = [op |-> "save"]
    /\ UNCHANGED << dispVars, mProjects, mCurrentProject, mMakefiles, mGRTagsDirs,
                    mSmartProjects, hasUpdatedProject, watched, projectsFile, parsers, insts,
                    mSaveTimers, timers, savedIds >>

\* (mutant) only the version is written
SaveWriteVersion ==
    /\ savePc = "pathsToIds"
    /\ Fclose(<< DatabaseVersion >>) /\ savedIds' = pathsToIds
    /\ stream' = NoStream /\ savePc' = "projects"
    /\ lastOp' = [op |-> "save"]
    /\ UNCHANGED << dispVars, mProjects, mCurrentProject, mMakefiles, mGRTagsDirs,
                    mSmartProjects, hasUpdatedProject, watched, projectsFile, parsers, insts,
                    mSaveTimers, timers, saving >>

\* lines 1285-1288: the version and the path ids are written, fclose
SaveWriteFileIds ==
    /\ savePc = "pathsToIds"
    /\ Fclose(<< DatabaseVersion >> \o Serialize(Location_pathsToIds)) /\ savedIds' = pathsToIds
    /\ stream' = NoStream /\ savePc' = "projects"
    /\ lastOp' = [op |-> "save"]
    /\ UNCHANGED << dispVars, mProjects, mCurrentProject, mMakefiles, mGRTagsDirs,
                    mSmartProjects, hasUpdatedProject, watched, projectsFile, parsers, insts,
                    mSaveTimers, timers, saving >>

\* lines 1290-1292: the registered projects whose indexer is the one to save
SavedKeys == { k \in DOMAIN mProjects : HasIndexer(mProjects[k]) /\ mProjects[k].inst = saving }

\* lines 1290-1303: the first project of the indexer in key order; fopen(p, "w")
\* creates or truncates its blob, and the version goes to the stream
SaveOpenBlob(openOk) ==
    /\ savePc = "projects"
    /\ IF SavedKeys # {} /\ openOk
       THEN LET key == SortedPaths(SavedKeys)[1]
            IN /\ dataDir' = MapPut(dataDir, key, << >>)
               /\ stream' = [name |-> key, out |-> << "DatabaseVersion" >>]
               /\ savePc' = "project" /\ UNCHANGED saving
       ELSE SaveReturns /\ UNCHANGED dataDir
    /\ lastOp' = [op |-> "save"]
    /\ UNCHANGED << dispVars, mProjects, mCurrentProject, mMakefiles, mGRTagsDirs,
                    mSmartProjects, hasUpdatedProject, watched, projectsFile, parsers, insts,
                    mSaveTimers, timers, savedIds >>

\* lines 1304-1308: Project::save(out); on failure fclose and return
SaveProject(saveOk) ==
    /\ savePc = "project"
    /\ IF saveOk
       THEN /\ stream' = [stream EXCEPT !.out = Append(@, mProjects[stream.name].sources)]
            /\ savePc' = "indexer" /\ UNCHANGED << saving, dataDir >>
       ELSE Fclose(stream.out) /\ SaveReturns
    /\ lastOp' = [op |-> "save"]
    /\ UNCHANGED << dispVars, mProjects, mCurrentProject, mMakefiles, mGRTagsDirs,
                    mSmartProjects, hasUpdatedProject, watched, projectsFile, parsers, insts,
                    mSaveTimers, timers, savedIds >>

\* lines 1309-1316: Indexer::save(out), fclose
SaveIndexer(saveOk) ==
    /\ savePc = "indexer"
    /\ Fclose(IF saveOk THEN Append(stream.out, saving) ELSE stream.out)
    /\ SaveReturns
    /\ lastOp' = [op |-> "save"]
    /\ UNCHANGED << dispVars, mProjects, mCurrentProject, mMakefiles, mGRTagsDirs,
                    mSmartProjects, hasUpdatedProject, watched, projectsFile, parsers, insts,
                    mSaveTimers, timers, savedIds >>

\* stdio writes what the stream has buffered to the file before fclose
SaveFlush ==
    /\ savePc \in { "project", "indexer" }
    /\ dataDir[stream.name] # stream.out
    /\ Fclose(stream.out)
    /\ lastOp' = [op |-> "save"]
    /\ UNCHANGED << dispVars, mProjects, mCurrentProject, mMakefiles, mGRTagsDirs,
                    mSmartProjects, hasUpdatedProject, watched, projectsFile, parsers, insts,
                    saveVars >>

SaveConns == { 1 }
SaveDirs == { <<1>>, <<2>> }

SaveNext ==
    \/ \E c \in SaveConns : Idle /\ onNewConnection(c) /\ UNCHANGED << syncVars, saveVars, loopVars >>
    \/ \E c \in SaveConns, d \in SaveDirs, isDir \in BOOLEAN, found \in InputFileLists :
          Idle /\ handleProjectMessageSmart(c, d, isDir, found)
               /\ UNCHANGED << syncVars, saveVars, loopVars >>
    \/ \E c \in SaveConns, pattern \in Patterns, unload \in BOOLEAN :
          Idle /\ removeProject(c, pattern, unload) /\ UNCHANGED << syncVars, saveVars, loopVars >>
    \/ \E c \in SaveConns : Idle /\ clearProjects(c) /\ UNCHANGED << syncVars, saveVars, loopVars >>
    \/ \E i \in 1..MaxInsts, count \in Counts : onJobsComplete(i, count) /\ UNCHANGED << syncVars, loopVars >>
    \/ \E i \in 1..MaxInsts : onJobStarted(i) /\ UNCHANGED << syncVars, loopVars >>
    \/ \E id \in TimerIds, mkdirOk \in BOOLEAN :
          saveTimerCallback(id, mkdirOk) /\ UNCHANGED << syncVars, loopVars >>
    \/ \E openOk \in BOOLEAN : SaveOpenFileIds(openOk) /\ UNCHANGED << syncVars, loopVars >>
    \/ SaveWriteFileIds /\ UNCHANGED << syncVars, loopVars >>
    \/ \E openOk \in BOOLEAN : SaveOpenBlob(openOk) /\ UNCHANGED << syncVars, loopVars >>
    \/ \E saveOk \in BOOLEAN : SaveProject(saveOk) /\ UNCHANGED << syncVars, loopVars >>
    \/ \E saveOk \in BOOLEAN : SaveIndexer(saveOk) /\ UNCHANGED << syncVars, loopVars >>
    \/ SaveFlush /\ UNCHANGED << syncVars, loopVars >>

\* the indexers' signals, the save timers and the files Server::save writes
SpecSave == FreshInit /\ [][SaveNext]_vars

\* two registered makefiles, the path of one contained in the path of the
\* other (Makefile and Makefile.am), and the arguments recorded for them
RemakeMakefiles == { <<1, 3>>, <<1, 3, 4>> }
RemakeInfos == { << >>, <<"-B">> }
RemakeInputs == { [inputFiles |-> <<"x.c", "y.h">>, lang |-> "C",
                   info |-> [args |-> <<"-O">>, compiler |-> "gcc"]] }

RemakeNext ==
    \/ \E c \in RegistryConns :
          onNewConnection(c) /\ UNCHANGED << syncVars, saveVars, loopVars >>
    \/ \E c \in RegistryConns, m \in RemakeMakefiles, a \in RemakeInfos,
          automake \in BOOLEAN :
          handleProjectMessageMakefile(c, m, a, automake)
              /\ ParsersBounded(MaxRemakes) /\ UNCHANGED << syncVars, saveVars, loopVars >>
    \/ \E parser \in parsers, args \in RemakeInputs, root \in {NoPath, <<1>>} :
          onFileReady(parser, args, root, root, EmptyMap)
              /\ ParsersBounded(MaxRemakes) /\ UNCHANGED << syncVars, saveVars, loopVars >>
    \/ \E parser \in parsers :
          onMakefileParserDone(parser) /\ UNCHANGED << syncVars, saveVars, loopVars >>
    \/ \E path \in RemakeMakefiles :
          onMakefileModified(path)
              /\ ParsersBounded(MaxRemakes) /\ UNCHANGED << syncVars, saveVars, loopVars >>

\* makefiles are registered, ingested and modified on disk
SpecRemake == FreshInit /\ [][RemakeNext]_vars

ReloadNext ==
    \/ \E c \in RegistryConns :
          onNewConnection(c) /\ UNCHANGED << syncVars, saveVars, loopVars >>
    \/ \E c \in RegistryConns, m \in RemakeMakefiles, a \in RemakeInfos,
          automake \in BOOLEAN :
          handleProjectMessageMakefile(c, m, a, automake)
              /\ ParsersBounded(MaxParsers) /\ UNCHANGED << syncVars, saveVars, loopVars >>
    \/ \E parser \in parsers :
          onMakefileParserDone(parser) /\ UNCHANGED << syncVars, saveVars, loopVars >>
    \/ \E c \in RegistryConns, pattern \in Patterns :
          removeProject(c, pattern, FALSE)
              /\ ParsersBounded(MaxParsers) /\ UNCHANGED << syncVars, saveVars, loopVars >>
    \/ \E path \in RemakeMakefiles :
          projectsFileEdited(path) /\ UNCHANGED << syncVars, saveVars, loopVars >>
    \/ \E c \in RegistryConns :
          reloadProjects(c, FALSE, << >>)
              /\ ParsersBounded(MaxParsers) /\ UNCHANGED << syncVars, saveVars, loopVars >>

\* makefiles are registered and deleted, the projects file is edited and reloaded
SpecReload == FreshInit /\ [][ReloadNext]_vars

\* the input file /a/b/f.c, which resolves to /c/f.c, and its ancestors
DirA == << "/", "a", "/" >>
DirAB == << "/", "a", "/", "b", "/" >>
DirC == << "/", "c", "/" >>
Unresolved == DirAB \o << "f.c" >>
ResolvedInputs == { Unresolved, DirC \o << "f.c" >> }
\* what the three directories hold
FileSystems ==
    { (DirAB :> ab) @@ (DirA :> a) @@ (DirC :> c) :
          ab \in SUBSET { << "Makefile" >>, << ".git" >>, << "x", ".pro" >> },
          a \in SUBSET { << "configure" >>, << ".git" >>, << "config.status" >> },
          c \in SUBSET { << ".git" >> } }
\* Path::home(), and the directories the configure lines of config.status name
Homes == { DirA, << "/", "h", "/" >> }
ConfigStatusLines == { << >>, << DirA >>, << << "/", "d", "/" >> >> }

DiscoverNext ==
    \/ \E c \in RegistryConns :
          onNewConnection(c) /\ UNCHANGED << syncVars, saveVars, loopVars >>
    \/ \E c \in RegistryConns, m \in Makefiles, a \in MakefileArgLists, automake \in BOOLEAN :
          handleProjectMessageMakefile(c, m, a, automake)
              /\ ParsersBounded(MaxParsers) /\ UNCHANGED << syncVars, saveVars, loopVars >>
    \/ \E parser \in parsers, args \in RemakeInputs, fs \in FileSystems,
          lines \in ConfigStatusLines, home \in Homes, resolved \in ResolvedInputs :
          onFileReadyIn(parser, args, fs, lines, home, Unresolved, resolved)
              /\ ParsersBounded(MaxParsers) /\ UNCHANGED << syncVars, saveVars, loopVars >>
    \/ \E parser \in parsers :
          onMakefileParserDone(parser) /\ UNCHANGED << syncVars, saveVars, loopVars >>

\* compile commands arrive for a project whose source root is looked up in
\* the file system
SpecDiscover == FreshInit /\ [][DiscoverNext]_vars

(***************************************************************************)
(* Server::init and Server::restore: the start of the daemon               *)
(***************************************************************************)
\* the iterations of the listen loop
ListenAttempts == 10

\* if (!i): the Shutdown message is sent after the first failed attempt only
SendsShutdown(i) == i = 0

\* the value of i: the attempts that have failed
Failed(l) == Cardinality({ k \in DOMAIN l : l[k] = "listen failed" })

\* one iteration of the listen loop; listenOk is what LocalServer::listen
\* returns. After the last failure init returns false.
initListen(listenOk) ==
    /\ initPc = "listen"
    /\ LET i == Failed(initLog)
       IN IF listenOk
          THEN initLog' = Append(initLog, "listen ok") /\ initPc' = "restore"
          ELSE /\ initLog' = initLog \o << "listen failed" >>
                                \o (IF SendsShutdown(i) THEN << "Shutdown" >> ELSE << >>)
                                \o << "rm" >>
               /\ initPc' = IF i + 1 < ListenAttempts THEN "listen" ELSE "failed"
    /\ lastOp' = [op |-> "listen", ok |-> listenOk]
    /\ UNCHANGED << dispVars, regVars, saveVars, eventLoop, pathsToIds >>

\* (mutant) the version is not compared
VersionMatchesAny(version) == TRUE

\* version == DatabaseVersion
VersionMatches(version) == version = DatabaseVersion

\* in >> version: what the head of the file holds; nothing is read from an
\* empty file and the int is left as it was, uninitialized
VersionsRead(file) == IF file = << >> THEN { DatabaseVersion, StaleVersion } ELSE { file[1] }

\* Server::restore, called by init once the server listens
restore ==
    /\ initPc = "restore"
    /\ IF FileIds \notin DOMAIN dataDir
       THEN /\ lastOp' = [op |-> "restore", opened |-> FALSE, version |-> NoPath]
            /\ UNCHANGED pathsToIds
       ELSE \E version \in VersionsRead(dataDir[FileIds]) :
               /\ pathsToIds' = IF VersionMatches(version)
                                THEN Deserialize(Tail(dataDir[FileIds]))
                                ELSE pathsToIds
               /\ lastOp' = [op |-> "restore", opened |-> TRUE, version |-> version]
    /\ initPc' = "reload"
    /\ UNCHANGED << dispVars, regVars, saveVars, eventLoop, initLog >>

\* lines 125-126: reloadProjects(), and init ends without a return statement:
\* the caller reads a bool that was never set
initReloadProjects(returned) ==
    /\ initPc = "reload"
    /\ LET R1 == ReloadProjects(Reg, FALSE, << >>)
       IN R1.insts <= MaxInsts /\ SetReg(R1)
    /\ initPc' = IF returned THEN "running" ELSE "failed"
    /\ lastOp' = [op |-> "init returns", returned |-> returned]
    /\ UNCHANGED << dispVars, saveVars, eventLoop, initLog, pathsToIds >>

\* Location::insertFile: a path not yet known gets the next id
insertFile(path) ==
    /\ path \notin DOMAIN pathsToIds
    /\ pathsToIds' = MapPut(pathsToIds, path, Cardinality(DOMAIN pathsToIds) + 1)
    /\ lastOp' = [op |-> "insertFile", path |-> path]
    /\ UNCHANGED << dispVars, regVars, saveVars, eventLoop, initPc, initLog >>

\* lines 887-901: the sources the blob of a project restores; blob is what
\* the file of the project holds, empty if fopen fails
RestoreBlob(blob) ==
    IF blob = << >> THEN EmptyMap
    ELSE IF ~VersionMatches(blob[1]) THEN EmptyMap
    ELSE IF Len(blob) < 3 THEN EmptyMap
    ELSE blob[2]

\* a build with another DatabaseVersion finds the files of the earlier one
Stale(blob) == IF blob = << >> THEN blob ELSE [blob EXCEPT ![1] = StaleVersion]

\* the process ends and the daemon is started again, the same build or a
\* build with another schema version; what is on disk stays
restart(upgraded) ==
    /\ initPc \in { "running", "failed" } /\ Idle
    /\ conns' = [c \in Conns |-> "none"] /\ finished' = {}
    /\ mPendingLookups' = EmptyMap /\ mJobId' = 0 /\ prevJobId' = 0
    /\ jobs' = EmptyMap /\ events' = << >> /\ purgedJobs' = {}
    /\ mProjects' = EmptyMap /\ mCurrentProject' = 0
    /\ mMakefiles' = EmptyMap /\ mGRTagsDirs' = {} /\ mSmartProjects' = EmptyMap
    /\ watched' = {} /\ hasUpdatedProject' = {} /\ parsers' = {} /\ insts' = 0
    /\ mSaveTimers' = EmptyMap /\ timers' = EmptyMap
    /\ eventLoop' = "running"
    /\ initPc' = "listen" /\ initLog' = << >> /\ pathsToIds' = EmptyMap
    /\ dataDir' = IF upgraded THEN [k \in DOMAIN dataDir |-> Stale(dataDir[k])] ELSE dataDir
    /\ lastOp' = [op |-> "restart", upgraded |-> upgraded]
    /\ UNCHANGED << projectsFile, savePc, saving, stream, savedIds >>

\* Server::init has returned true and the event loop runs
Booted == initPc = "running"

BootMakefiles == { <<1, 3>> }
BootPaths == { <<1, 5>>, <<1, 6>> }
BootInputs == { [inputFiles |-> <<"x.c", "y.h">>, lang |-> "C",
                 info |-> [args |-> <<"-O">>, compiler |-> "gcc"]] }
BootRoots == { <<1>> }

BootNext ==
    \/ \E listenOk \in BOOLEAN : initListen(listenOk) /\ UNCHANGED syncVars
    \/ restore /\ UNCHANGED syncVars
    \/ \E returned \in BOOLEAN :
          initReloadProjects(returned) /\ ParsersBounded(MaxParsers) /\ UNCHANGED syncVars
    \/ \E upgraded \in BOOLEAN : restart(upgraded) /\ UNCHANGED syncVars
    \/ \E path \in BootPaths : Booted /\ Idle /\ insertFile(path) /\ UNCHANGED syncVars
    \/ \E c \in RegistryConns :
          Booted /\ Idle /\ onNewConnection(c) /\ UNCHANGED << syncVars, saveVars, loopVars >>
    \/ \E c \in RegistryConns, m \in BootMakefiles :
          Booted /\ Idle /\ handleProjectMessageMakefile(c, m, << >>, TRUE)
              /\ ParsersBounded(MaxParsers) /\ UNCHANGED << syncVars, saveVars, loopVars >>
    \/ \E parser \in parsers, args \in BootInputs, root \in BootRoots :
          Booted /\ Idle
              /\ onFileReady(parser, args, root, root,
                             RestoreBlob(MapGet(dataDir, parser.makefile, << >>)))
              /\ ParsersBounded(MaxParsers) /\ UNCHANGED << syncVars, saveVars, loopVars >>
    \/ \E parser \in parsers :
          Booted /\ Idle /\ onMakefileParserDone(parser)
              /\ UNCHANGED << syncVars, saveVars, loopVars >>
    \/ \E i \in 1..MaxInsts :
          Booted /\ onJobsComplete(i, 1) /\ UNCHANGED << syncVars, loopVars >>
    \/ \E id \in TimerIds :
          Booted /\ saveTimerCallback(id, TRUE) /\ UNCHANGED << syncVars, loopVars >>
    \/ \E openOk \in BOOLEAN : SaveOpenFileIds(openOk) /\ UNCHANGED << syncVars, loopVars >>
    \/ SaveWriteFileIds /\ UNCHANGED << syncVars, loopVars >>
    \/ \E openOk \in BOOLEAN : SaveOpenBlob(openOk) /\ UNCHANGED << syncVars, loopVars >>
    \/ \E saveOk \in BOOLEAN : SaveProject(saveOk) /\ UNCHANGED << syncVars, loopVars >>
    \/ \E saveOk \in BOOLEAN : SaveIndexer(saveOk) /\ UNCHANGED << syncVars, loopVars >>

\* the daemon is started, interns paths, ingests a makefile, saves, and is
\* started again
SpecBoot == FreshInit /\ [][BootNext]_vars

PathTypes == { "file", "dir", "none" }
FileIdInputs == { 0, 1 }

IsIndexedNext ==
    \/ \E c \in RegistryConns :
          onNewConnection(c) /\ UNCHANGED << syncVars, saveVars, loopVars >>
    \/ \E c \in RegistryConns, k \in Keys :
          handleProjectMessageGRTags(c, k) /\ UNCHANGED << syncVars, saveVars, loopVars >>
    \/ \E c \in RegistryConns, d \in SmartDirs, found \in InputFileLists :
          handleProjectMessageSmart(c, d, TRUE, found)
              /\ UNCHANGED << syncVars, saveVars, loopVars >>
    \/ \E c \in RegistryConns, pattern \in Patterns, unload \in BOOLEAN :
          removeProject(c, pattern, unload)
              /\ ParsersBounded(MaxParsers) /\ UNCHANGED << syncVars, saveVars, loopVars >>
    \/ \E c \in RegistryConns, path \in QueryPaths, type \in PathTypes,
          fileId \in FileIdInputs, hit \in BOOLEAN :
          isIndexed(c, path, type, fileId, hit)
              /\ UNCHANGED << syncVars, saveVars, loopVars >>

\* is-indexed queries on a registry of GRTags and smart projects
SpecIsIndexed == FreshInit /\ [][IsIndexedNext]_vars

(***************************************************************************)
(* Properties of the save timers and of Server::save                       *)
(***************************************************************************)
\* a timer whose user data is the indexer is in the event loop
Armed(i) == \E id \in DOMAIN timers : timers[id] = i

\* C12: handling jobStarted(indexer) leaves no timer of the indexer in the
\* event loop; a timer of the indexer enters the event loop only when
\* jobsComplete(indexer, N > 0) is handled; and a save for the indexer begins
\* only when a timer of the indexer fires. So after jobStarted no save of the
\* indexer's project occurs until a later jobsComplete(indexer, N > 0).
ThmC12 ==
    [][\A i \in 1..MaxInsts :
          /\ (lastOp'.op = "onJobStarted" /\ lastOp'.indexer = i) => ~Armed(i)'
          /\ (~Armed(i) /\ Armed(i)') =>
                (lastOp'.op = "onJobsComplete" /\ lastOp'.indexer = i /\ lastOp'.count = 1)
          /\ (saving # i /\ saving' = i) => (Armed(i) /\ ~Armed(i)')]_vars

\* jobStarted was handled while the timer armed by jobsComplete was pending
WitC12 == lastOp.op = "onJobStarted" /\ lastOp.armed

\* the timers of the event loop whose user data is the indexer
TimersOf(i) == { id \in DOMAIN timers : timers[id] = i }

\* C31: at most one save timer is armed per indexer; after
\* jobsComplete(indexer, N > 0) is handled the one timer of the indexer is the
\* one just added, recorded in mSaveTimers, whether or not one was armed
\* before; after jobsComplete(indexer, 0) the indexer has none
ThmC31 ==
    /\ \A i \in 1..MaxInsts : Cardinality(TimersOf(i)) <= 1
    /\ lastOp.op = "onJobsComplete" =>
           IF lastOp.count = 0 THEN TimersOf(lastOp.indexer) = {}
           ELSE /\ lastOp.indexer \in DOMAIN mSaveTimers
                /\ TimersOf(lastOp.indexer) = { mSaveTimers[lastOp.indexer] }

\* jobsComplete(indexer, 1) was handled while a timer of the indexer was armed
WitC31 ==
    lastOp.op = "onJobsComplete" /\ lastOp.count = 1 /\ lastOp.armed

\* C36: every entry of mSaveTimers names a timer that is in the event loop
\* for that indexer
OrigC36 ==
    \A i \in DOMAIN mSaveTimers :
        mSaveTimers[i] \in DOMAIN timers /\ timers[mSaveTimers[i]] = i

\* a blob of the data directory holds the version, the project and the indexer
Complete(blob) == Len(blob) = 3 /\ blob[1] = "DatabaseVersion"

\* C13: wherever the process is killed, every per-project blob of the data
\* directory is a complete blob, never a truncated or partly written one
OrigC13 ==
    \A k \in DOMAIN dataDir \ { FileIds } : Complete(dataDir[k])

(***************************************************************************)
(* Properties of the project registry                                      *)
(***************************************************************************)
\* C33: currentProject() is null or a project that is registered
OrigC33 == Lock(Reg) = 0 \/ Lock(Reg) \in InstsOf(Reg)

\* C37: a fileReady processed for a project while another project is
\* current leaves that other project current
OrigC37 ==
    (/\ lastOp.op = "onFileReady" /\ lastOp.processed
     /\ lastOp.current # 0 /\ lastOp.current # mProjects[lastOp.makefile].inst) =>
        Lock(Reg) = lastOp.current

\* C38: an is-indexed query leaves currentProject() as it was, writes "1" or
\* "0" and finishes the connection
OrigC38 ==
    lastOp.op = "isIndexed" =>
        /\ Lock(Reg) = lastOp.old
        /\ lastOp.out \in { "0", "1" } /\ lastOp.conn \in finished

\* C32: the paths the watcher watches are the makefile paths that have a
\* project in the registry
OrigC32 == watched = DOMAIN mProjects \cap Makefiles

\* C18: when delete-project, reloadProjects or clear-projects has removed the
\* last registered project, currentProject() is null
OrigC18 ==
    (lastOp.op \in { "removeProject", "clearProjects", "reloadProjects" } /\ lastOp.emptied)
        => Lock(Reg) = 0

\* the handler of a QueryMessage has returned without starting a job
\* the last step was a fileReady that found the source root of a project not
\* yet initialised and got past the early returns of processSourceFile
Ingested == lastOp.op = "onFileReady" /\ lastOp.processed /\ lastOp.init

\* C19: the first fileReady processed for an added project (its source root is
\* found, Project::init runs) leaves that project valid and current, whatever
\* the current project was before, null included
ThmC19 ==
    Ingested =>
        /\ lastOp.makefile \in DOMAIN mProjects
        /\ mProjects[lastOp.makefile].valid
        /\ Lock(Reg) = mProjects[lastOp.makefile].inst

\* a fileReady initialised a project while no project was current
WitC19 ==
    /\ Ingested /\ lastOp.current = 0
    /\ Lock(Reg) = mProjects[lastOp.makefile].inst

\* the handlers that take projects out of the map: delete-project,
\* clear-projects, reload-projects and Server::clear
Removals == { "removeProject", "clearProjects", "reloadProjects", "clear" }

\* C20: an unload-project query keeps the keys of the registry; every project
\* it matches stays registered as the same object and is invalid afterwards;
\* a key leaves the registry only in a step of a removing handler
ThmC20 ==
    [][/\ \A c \in RegistryConns, pattern \in Patterns :
             removeProject(c, pattern, TRUE) =>
                 /\ DOMAIN mProjects' = DOMAIN mProjects
                 /\ \A k \in DOMAIN mProjects :
                        /\ mProjects'[k].inst = mProjects[k].inst
                        /\ RegExpIndexIn(pattern, k) => ~mProjects'[k].valid
                        /\ ~RegExpIndexIn(pattern, k) => mProjects'[k] = mProjects[k]
       /\ (DOMAIN mProjects \ DOMAIN mProjects' # {}) => lastOp'.op \in Removals]_vars

\* an unload-project query matched a valid project, which is still registered
WitC20 ==
    /\ lastOp.op = "unloadProject" /\ lastOp.valid # {}
    /\ DOMAIN mProjects = lastOp.before
    /\ \A k \in lastOp.valid : ~mProjects[k].valid

\* C21: a modification event for a registered makefile whose project is valid
\* makes exactly one make() call, for that makefile with the arguments and
\* flags recorded for it; for a project that is not valid it makes none
OrigC21 ==
    (lastOp.op = "onMakefileModified" /\ lastOp.path \in DOMAIN mMakefiles) =>
        lastOp.made = IF lastOp.valid
                      THEN << [makefile |-> lastOp.path, info |-> mMakefiles[lastOp.path]] >>
                      ELSE << >>

\* C24: a reloadProjects that meets a makefile entry that does not parse
\* leaves the registry, the makefile table and the watched set as they were
OrigC24 ==
    [][\A c \in RegistryConns :
          (Refused(projectsFile) /\ reloadProjects(c, FALSE, << >>)) =>
              /\ mProjects' = mProjects
              /\ mMakefiles' = mMakefiles
              /\ watched' = watched]_vars

\* the paths the three groups of the projects file list
Listed(file) == DOMAIN file.Makefiles \cup file.GRTags \cup DOMAIN file.SmartProjects

\* C35: after a reloadProjects that meets no parse error, with the listed
\* smart-project paths being directories, the keys of the registry are the
\* paths the projects file listed
OrigC35 ==
    [][\A c \in RegistryConns, found \in InputFileLists :
          (~Refused(projectsFile) /\ reloadProjects(c, TRUE, found)) =>
              DOMAIN mProjects' = Listed(projectsFile)]_vars

\* the name of a directory entry is one of the markers of entries[]
MarkerNamed(entry) ==
    \E i \in 1..Len(Entries) :
        IF Entries[i].wildcard THEN Fnmatch(Entries[i].name, entry)
        ELSE entry = Entries[i].name

\* the directory holds a marker
Marked(fs, dir) == \E entry \in DirEntries(fs, dir) : MarkerNamed(entry)

\* the ancestor directories of a path, "/" left out
Ancestors(path) == { SubSeq(path, 1, i) : i \in Range(Slashes(path, Len(path))) }

\* the walk from the deepest ancestor to the shallowest one: the first
\* directory that holds a marker and is not the home directory
RECURSIVE DeepestMarked(_, _, _, _)
DeepestMarked(fs, home, path, slashes) ==
    IF slashes = << >> THEN NoPath
    ELSE LET dir == SubSeq(path, 1, Head(slashes))
         IN IF Marked(fs, dir) /\ dir # home THEN dir
            ELSE DeepestMarked(fs, home, path, Tail(slashes))

\* findProjectRoot has run in the last step
Discovered == lastOp.op = "findProjectRoot"

\* C25: when the walk from the deepest ancestor to the shallowest one, the
\* markers tested at each ancestor, meets a marker outside the home
\* directory, findProjectRoot returns the directory of the first such hit
OrigC25 ==
    Discovered =>
        LET dir == DeepestMarked(lastOp.fs, lastOp.home, lastOp.unresolved,
                                 Slashes(lastOp.unresolved, Len(lastOp.unresolved)))
        IN dir # NoPath => lastOp.found = dir

\* markers are found among the ancestors of the path, all of them in the
\* home directory
HomeOnly(fs, home, path) ==
    /\ \E dir \in Ancestors(path) : Marked(fs, dir)
    /\ \A dir \in Ancestors(path) : Marked(fs, dir) => dir = home

\* no config.status among the ancestors of the path names a directory other
\* than the home directory
NoConfigure(fs, lines, home, path) ==
    \/ FindAncestor(fs, path, << "config.status" >>, FALSE) = NoPath
    \/ \A i \in 1..Len(lines) : lines[i] = home

QueryReturned ==
    \/ lastOp.op \in { "hasFileManager", "project", "handleQueryMessage", "removeProject",
                       "unloadProject", "clearProjects", "reloadProjects" }
    \/ lastOp.op = "findSymbols" /\ ~lastOp.job

\* C16, at the deadline of a query whose handler starts no job: when the
\* handler of a QueryMessage returns on a live connection, finish has been
\* called on that connection, whatever the query subtype, also when no
\* project is current and when the connection has already updated its project
OrigC16 == QueryReturned => lastOp.conn \in finished

\* the length of the longest of the project's two roots that is a prefix of
\* the path, -1 if neither is
MatchLength(p, path) ==
    LET lengths == { Len(r) : r \in { r \in {p.srcRoot, p.resolvedSrcRoot} :
                                        r # NoPath /\ IsPrefix(r, path) } }
    IN IF lengths = {} THEN -1 ELSE CHOOSE n \in lengths : \A m \in lengths : m <= n

\* the keys of the projects whose matching root is the longest
LongestMatches(path) ==
    { k \in DOMAIN mProjects :
        /\ MatchLength(mProjects[k], path) >= 0
        /\ \A j \in DOMAIN mProjects :
              MatchLength(mProjects[j], path) <= MatchLength(mProjects[k], path) }

\* of the longest matches, the project registered first
FirstRegistered(path) ==
    CHOOSE i \in { mProjects[k].inst : k \in LongestMatches(path) } :
        \A k \in LongestMatches(path) : i <= mProjects[k].inst

\* of the longest matches, the project whose key is the least
FirstByKey(path) == mProjects[SortedPaths(LongestMatches(path))[1]].inst

\* the current project is registered and its srcRoot is a prefix of the path
CurrentMatches(path) ==
    \E k \in DOMAIN mProjects :
        /\ mProjects[k].inst = Lock(Reg)
        /\ mProjects[k].srcRoot # NoPath /\ IsPrefix(mProjects[k].srcRoot, path)

\* a step of hasFileManager, which is updateProjectForLocation(path)
Located == lastOp'.op = "hasFileManager"

ThmC7 ==
    [][\A k \in DOMAIN mProjects :
          ( /\ mProjects[k].srcRoot # NoPath
            /\ k \in DOMAIN mProjects' /\ mProjects'[k].inst = mProjects[k].inst
            /\ ~(lastOp'.op = "unloadProject" /\ k \in lastOp'.keys) )
          => mProjects'[k].srcRoot = mProjects[k].srcRoot]_vars

\* a compile command was processed for a project that had its source root and
\* sources from an earlier command
WitC7 ==
    /\ lastOp.op = "onFileReady" /\ lastOp.processed /\ "y.h" \in DOMAIN lastOp.before
    /\ \E k \in Makefiles \cap DOMAIN mProjects : mProjects[k].srcRoot # NoPath

\* for each input file a job was scheduled exactly if the new source
\* information differs from the stored one
ScheduledIffDiffers ==
    \A f \in lastOp.files :
        f \in lastOp.scheduled
            <=> SourceInfo(lastOp.before, f) # SourceInformation(f, lastOp.info)

\* C10 as stated: whenever fileReady is processed, a job is scheduled for an
\* input file exactly if its new source information differs from the stored one
OrigC10 == lastOp.op = "onFileReady" => ScheduledIffDiffers

\* C10 (amended): that holds when the command has a language, its project is
\* registered and a source root is known or found; otherwise nothing is scheduled
ThmC10 ==
    lastOp.op = "onFileReady" =>
        /\ lastOp.scheduled \subseteq lastOp.files
        /\ lastOp.processed => ScheduledIffDiffers
        /\ ~lastOp.processed => lastOp.scheduled = {}

\* a command with one file whose source information is the stored one and one
\* file whose is not
WitC10 ==
    /\ lastOp.op = "onFileReady" /\ lastOp.processed
    /\ lastOp.scheduled # {} /\ lastOp.files \ lastOp.scheduled # {}

(***************************************************************************)
(* Properties of the start of the daemon                                   *)
(***************************************************************************)
\* the file holds something and its head is not the version of this build
StaleFile(name) ==
    /\ name \in DOMAIN dataDir /\ dataDir[name] # << >>
    /\ dataDir[name][1] # DatabaseVersion

\* C22: when the version at the head of fileids or of a project's blob differs
\* from DatabaseVersion, nothing of the file is adopted: the path-to-id map is
\* empty after restore and init goes on to reloadProjects, respectively the
\* project is initialised with no sources, every input file is scheduled and
\* the project is the current one
ThmC22 ==
    /\ (lastOp.op = "restore" /\ lastOp.opened /\ lastOp.version # DatabaseVersion) =>
           pathsToIds = EmptyMap /\ initPc = "reload"
    /\ (lastOp.op = "onFileReady" /\ lastOp.init /\ StaleFile(lastOp.makefile)) =>
           /\ lastOp.processed /\ lastOp.before = EmptyMap
           /\ lastOp.scheduled = lastOp.files
           /\ mProjects[lastOp.makefile].valid
           /\ DOMAIN mProjects[lastOp.makefile].sources = lastOp.files
           /\ mCurrentProject = mProjects[lastOp.makefile].inst

\* a build with another version has started on the files of a daemon that had
\* interned paths and saved sources; the first compile command has arrived
WitC22 ==
    /\ lastOp.op = "onFileReady" /\ lastOp.init /\ StaleFile(lastOp.makefile)
    /\ Len(dataDir[lastOp.makefile]) = 3 /\ dataDir[lastOp.makefile][2] # EmptyMap
    /\ StaleFile(FileIds) /\ Deserialize(Tail(dataDir[FileIds])) # EmptyMap
    /\ pathsToIds = EmptyMap

\* C23: the path-to-id map Server::restore adopts in a fresh process is the
\* map Server::save wrote fileids from
ThmC23 ==
    (lastOp.op = "restore" /\ lastOp.opened /\ lastOp.version = DatabaseVersion) =>
        pathsToIds = savedIds

\* two paths were interned, the second in key order first, saved, and restored
WitC23 ==
    /\ lastOp.op = "restore" /\ lastOp.opened /\ lastOp.version = DatabaseVersion
    /\ DOMAIN pathsToIds = BootPaths /\ pathsToIds[<<1, 5>>] = 2

\* the listen attempts of the log
Attempts(l) == { k \in DOMAIN l : l[k] \in { "listen ok", "listen failed" } }

====
